---- MODULE Spec2Model ----
(***************************************************************************)
(* Flight-leg transformation and staged load of the Avianis ETL:           *)
(* generate_stable_id, FlightTransformer, FlightLoader and                 *)
(* CrewAssignmentLoader, with the MySQL tables they read and write.        *)
(*                                                                         *)
(* Values.  A datetime is a number of minutes since day 0, 00:00; a date   *)
(* is a day number.  Python None / SQL NULL is NULL for numeric and        *)
(* datetime values and NONE for strings.  A string holding a timestamp is  *)
(* a record [fmt, day, min] that names the format it is written in.        *)
(***************************************************************************)
EXTENDS Integers, Sequences, FiniteSets, TLC

VARIABLES
    sha,                 \* hashlib.sha256(x).digest()[:4] for every external id x
    calls,               \* SpecStableId: the calls of generate_stable_id made so far
    tIn, tOut,           \* SpecTransform: arguments and result of transform_flight_data
    cIn, cOut,           \* SpecTransfer: arguments and result of transfer_temp_to_target
    aIn, aOut,           \* SpecAvailability: tables and arguments of calculate_crew_availability
    qIn, qOut,           \* SpecQualification: tables read and written by
                         \* populate_crew_qualifications_from_flight_data
    api,                 \* SpecPagination: what the Avianis endpoint answers for each page
    pager,               \* SpecPagination: the loop of _get_paginated_data
    movement,            \* table movement: id -> row
    demand,              \* table demand: id -> row
    movement_temp,       \* table movement_temp, rows in insertion order
    crewassignment_temp, \* table crewassignment_temp, rows in insertion order
    crewassignment,      \* table crewassignment (auto-increment key), rows in insertion order
    pc,                  \* position of process_flight_schedules
    run,                 \* arguments and transformed records of the current run
    results,             \* the results dict of the current run
    mvWorker, crewWorker,\* positions of the two ThreadPoolExecutor tasks
    now,                 \* the wall clock (datetime.utcnow), one tick per run
    before,              \* the target tables as they were when the run began
    prev                 \* the last finished run: its arguments, outcome and tables

vars == <<sha, calls, tIn, tOut, cIn, cOut, aIn, aOut, qIn, qOut, api, pager, movement, demand, movement_temp, crewassignment_temp,
          crewassignment, pc, run, results, mvWorker, crewWorker, now, before, prev>>

stableIdVars == <<sha, calls>>
transformVars == <<tIn, tOut>>
transferVars == <<cIn, cOut>>
availabilityVars == <<aIn, aOut>>
qualificationVars == <<qIn, qOut>>
paginationVars == <<api, pager>>
functionVars == <<stableIdVars, transformVars, transferVars, availabilityVars,
                  qualificationVars, paginationVars>>
loaderVars == <<movement, demand, movement_temp, crewassignment_temp, crewassignment,
                pc, run, results, mvWorker, crewWorker, now, before, prev>>

---------------------------------------------------------------------------
(* Bounds of the model *)

MaxBatch == 2      \* legs per flight_data batch
MaxDay == 1        \* start_date / end_date range over days 0..MaxDay
MaxRuns == 2       \* runs of process_flight_schedules
MaxCalls == 3      \* recorded calls of generate_stable_id
MaxStaged == 2     \* rows of crewassignment_temp handed to transfer_temp_to_target
MaxRoster == 2     \* crew roster entries of a leg
MaxIntervals == 2  \* rows of crewunavaildate
MaxAvailDay == 2   \* start_time / end_time of calculate_crew_availability over days 0..MaxAvailDay
MaxQual == 2       \* rows of movement read by populate_crew_qualifications_from_flight_data
MaxPages == 3      \* pages the endpoint holds
PageSize == 2      \* page_size of _get_paginated_data

---------------------------------------------------------------------------
(* Values *)

NULL == 0 - 1
NONE == "None"
MinPerDay == 24 * 60
EmptyMap == [x \in {} |-> NULL]

Get(map, key) == IF key \in DOMAIN map THEN map[key] ELSE NULL

SeqsUpTo(S, n) == UNION {[1..k -> S] : k \in 0..n}

Iso(fmt, d, m) == [fmt |-> fmt, day |-> d, min |-> m]
IsoAbsent == Iso("none", 0, 0)                 \* key missing, None or ''
IsoDate(d) == Iso("date", d, 0)                \* 'YYYY-MM-DD'
IsoDateTime(d, m) == Iso("datetime", d, m)     \* 'YYYY-MM-DDTHH:MM:SSZ' and variants
UsDateTime(d, m) == Iso("us", d, m)            \* 'M/D/YYYY H:MM:SS PM'

DateOf(t) == t \div MinPerDay
HourOf(t) == (t % MinPerDay) \div 60

---------------------------------------------------------------------------
(* data_utils.py *)

parse_iso_datetime(iso_string) ==
    IF iso_string.fmt = "datetime" THEN iso_string.day * MinPerDay + iso_string.min
    ELSE IF iso_string.fmt = "date" THEN iso_string.day * MinPerDay
    ELSE NULL

parse_flight_datetime(date_string) ==
    IF date_string.fmt = "none" THEN NULL
    ELSE IF date_string.fmt = "us" THEN date_string.day * MinPerDay + date_string.min
    ELSE parse_iso_datetime(date_string)

\* int.from_bytes(hash_bytes, 'big') % range_size, by Horner's rule on the
\* four bytes so that no intermediate value leaves TLC's 32-bit integers
\* (range_size < 2^23).
RECURSIVE BytesMod(_, _, _)
BytesMod(bytes, range_size, acc) ==
    IF bytes = <<>> THEN acc
    ELSE BytesMod(Tail(bytes), range_size, (acc * 256 + Head(bytes)) % range_size)

generate_stable_id_modmax(fms_id, min_id, max_id) ==
    BytesMod(sha[fms_id], max_id, 0) + min_id

generate_stable_id(fms_id, min_id, max_id) ==
    LET range_size == max_id - min_id + 1
    IN  BytesMod(sha[fms_id], range_size, 0) + min_id

DefaultMinId == 100000
DefaultMaxId == 999999

---------------------------------------------------------------------------
(* Reference tables, read-only to the loader (lookup_service.py) *)

AircraftTable == [t \in {"N1"} |-> 11]          \* aircraft.tailnumber -> aircraft.id
CrewTable == [n \in {"A B", "C D"} |-> IF n = "A B" THEN 21 ELSE 22]

get_bulk_crew_lookup(crew_names) ==
    [n \in crew_names \cap DOMAIN CrewTable |-> CrewTable[n]]

get_bulk_aircraft_lookup(tail_numbers) ==
    [t \in tail_numbers \cap DOMAIN AircraftTable |-> AircraftTable[t]]

\* a key is present in the result only when its set is non-empty; the
\* transformer reads a missing key as {}
get_bulk_lookups(crew_names, aircraft_tail_numbers) ==
    [crew |-> IF crew_names = {} THEN EmptyMap ELSE get_bulk_crew_lookup(crew_names),
     aircraft |-> IF aircraft_tail_numbers = {} THEN EmptyMap
                  ELSE get_bulk_aircraft_lookup(aircraft_tail_numbers)]

---------------------------------------------------------------------------
(* transformers/flight_transformer.py *)

\* a flight_data argument: None, or a list of leg dicts
FlightDataNone == [isNone |-> TRUE, legs |-> <<>>]
FlightData(legs) == [isNone |-> FALSE, legs |-> legs]

\* str.lower() on the crewPosition values of the model
Lower(s) == CASE s = "PIC" -> "pic" [] s = "SIC" -> "sic" [] OTHER -> s

\* f"{first_name} {last_name}".strip()
CrewName(first_name, last_name) ==
    IF first_name = "" THEN last_name
    ELSE IF last_name = "" THEN first_name
    ELSE first_name \o " " \o last_name

\* generate_stable_id(None) raises AttributeError (None has no encode)
Raises(flight) == flight.id = NONE

\* the first pic/sic entry keeps the name
RECURSIVE CrewLoop_first_wins(_, _)
CrewLoop_first_wins(crew_list, acc) ==
    IF crew_list = <<>> THEN acc
    ELSE LET crew_member == Head(crew_list)
             crew_position == Lower(crew_member.crewPosition)
             crew_name == CrewName(crew_member.firstName, crew_member.lastName)
         IN  CrewLoop_first_wins(Tail(crew_list),
               [pic_name |-> IF crew_position = "pic" /\ acc.pic_name = NONE
                             THEN crew_name ELSE acc.pic_name,
                sic_name |-> IF crew_position = "sic" /\ acc.sic_name = NONE
                             THEN crew_name ELSE acc.sic_name,
                crew_members |-> Append(acc.crew_members,
                    [name |-> crew_name,
                     position |-> crew_position,
                     position_id |-> IF crew_position = "pic" THEN 1
                                     ELSE IF crew_position = "sic" THEN 2 ELSE NULL])])

\* the loop over the crew roster: a later pic/sic entry overwrites the name
RECURSIVE CrewLoop(_, _)
CrewLoop(crew_list, acc) ==
    IF crew_list = <<>> THEN acc
    ELSE LET crew_member == Head(crew_list)
             crew_position == Lower(crew_member.crewPosition)
             crew_name == CrewName(crew_member.firstName, crew_member.lastName)
         IN  CrewLoop(Tail(crew_list),
               [pic_name |-> IF crew_position = "pic" THEN crew_name ELSE acc.pic_name,
                sic_name |-> IF crew_position = "sic" THEN crew_name ELSE acc.sic_name,
                crew_members |-> Append(acc.crew_members,
                    [name |-> crew_name,
                     position |-> crew_position,
                     position_id |-> IF crew_position = "pic" THEN 1
                                     ELSE IF crew_position = "sic" THEN 2 ELSE NULL])])

extract_shared_flight_data(flight, utcnow) ==
    LET crew == CrewLoop(flight.crew,
                         [pic_name |-> NONE, sic_name |-> NONE, crew_members |-> <<>>])
        parsed_create == parse_flight_datetime(flight.createDate)
    IN  [fms_id |-> flight.id,
         trip_id |-> flight.tripID,
         stable_id |-> generate_stable_id(flight.id, DefaultMinId, DefaultMaxId),
         tail_number |-> flight.tailNumber,
         scheduled_departure |-> parse_iso_datetime(flight.scheduledDepartureDateUTC),
         scheduled_arrival |-> parse_iso_datetime(flight.scheduledArrivalDateUTC),
         create_time |-> IF parsed_create = NULL THEN utcnow ELSE parsed_create,
         pic_name |-> crew.pic_name,
         sic_name |-> crew.sic_name,
         crew_members |-> crew.crew_members,
         raw_flight |-> flight]

PadMinutes == 6

\* flight_time taken from the anchors, without the padding
calculate_oooi_times_unpadded(shared_data) ==
    LET outtime == shared_data.scheduled_departure
        intime == shared_data.scheduled_arrival
        offtime == IF outtime # NULL THEN outtime + PadMinutes ELSE NULL
        ontime == IF intime # NULL THEN intime - PadMinutes ELSE NULL
    IN  [outtime |-> outtime, offtime |-> offtime, ontime |-> ontime, intime |-> intime,
         flight_time |-> IF intime # NULL /\ outtime # NULL THEN intime - outtime ELSE NULL,
         block_time |-> IF intime # NULL /\ outtime # NULL THEN intime - outtime ELSE NULL]

calculate_oooi_times(shared_data) ==
    LET outtime == shared_data.scheduled_departure
        intime == shared_data.scheduled_arrival
        offtime == IF outtime # NULL THEN outtime + PadMinutes ELSE NULL
        ontime == IF intime # NULL THEN intime - PadMinutes ELSE NULL
    IN  [outtime |-> outtime, offtime |-> offtime, ontime |-> ontime, intime |-> intime,
         flight_time |-> IF ontime # NULL /\ offtime # NULL THEN ontime - offtime ELSE NULL,
         block_time |-> IF intime # NULL /\ outtime # NULL THEN intime - outtime ELSE NULL]

\* a string is falsy when it is None or ''
Truthy(s) == s # NONE /\ s # ""

\* clean_string: None for None and for a blank string
clean_string(value) == IF Truthy(value) THEN value ELSE NONE

build_movement_record(shared_data, lookups) ==
    LET flight == shared_data.raw_flight
        oooi_times == calculate_oooi_times(shared_data)
        id == shared_data.stable_id
    IN  [id |-> id,
         demandid |-> IF flight.isEmpty = "False" THEN id ELSE NULL,
         aircraftid |-> IF Truthy(shared_data.tail_number)
                        THEN Get(lookups.aircraft, shared_data.tail_number) ELSE NULL,
         outtime |-> oooi_times.outtime,
         offtime |-> oooi_times.offtime,
         ontime |-> oooi_times.ontime,
         intime |-> oooi_times.intime,
         flighttime |-> oooi_times.flight_time,
         blocktime |-> oooi_times.block_time,
         status |-> clean_string(flight.status),
         picid |-> IF Truthy(shared_data.pic_name)
                   THEN Get(lookups.crew, shared_data.pic_name) ELSE NULL,
         sicid |-> IF Truthy(shared_data.sic_name)
                   THEN Get(lookups.crew, shared_data.sic_name) ELSE NULL,
         fmsid |-> shared_data.fms_id,
         createtime |-> shared_data.create_time,
         tailnumber |-> clean_string(shared_data.tail_number),
         pic |-> shared_data.pic_name,
         sic |-> shared_data.sic_name,
         isposition |-> IF flight.isEmpty = "True" THEN 1 ELSE 0,
         tripid |-> shared_data.trip_id]

RECURSIVE AssignmentLoop(_, _, _, _)
AssignmentLoop(crew_members, shared_data, aircraft_id, crew_lookup) ==
    IF crew_members = <<>> THEN <<>>
    ELSE LET crew_member == Head(crew_members)
             rest == AssignmentLoop(Tail(crew_members), shared_data, aircraft_id, crew_lookup)
             crew_id == Get(crew_lookup, crew_member.name)
         IN  IF crew_member.position_id = NULL THEN rest
             ELSE IF crew_id = NULL \/ crew_id = 0 THEN rest
             ELSE <<[aircraftid |-> aircraft_id,
                     crewid |-> crew_id,
                     positionid |-> crew_member.position_id,
                     starttime |-> shared_data.scheduled_departure,
                     endtime |-> shared_data.scheduled_arrival,
                     fmsid |-> shared_data.fms_id,
                     tailnumber |-> shared_data.tail_number,
                     crewname |-> crew_member.name]>> \o rest

\* without the `not aircraft_id` test
build_crew_assignment_records_any_aircraft(shared_data, aircraft_id, crew_lookup) ==
    AssignmentLoop(shared_data.crew_members, shared_data, aircraft_id, crew_lookup)

build_crew_assignment_records(shared_data, aircraft_id, crew_lookup) ==
    IF shared_data.crew_members = <<>> \/ aircraft_id = NULL \/ aircraft_id = 0 THEN <<>>
    ELSE AssignmentLoop(shared_data.crew_members, shared_data, aircraft_id, crew_lookup)

RECURSIVE CollectLoop(_, _, _)
CollectLoop(legs, utcnow, acc) ==
    IF legs = <<>> THEN acc
    ELSE LET shared_data == extract_shared_flight_data(Head(legs), utcnow)
         IN  CollectLoop(Tail(legs), utcnow,
               [crew_names |-> acc.crew_names
                      \cup (IF Truthy(shared_data.pic_name) THEN {shared_data.pic_name} ELSE {})
                      \cup (IF Truthy(shared_data.sic_name) THEN {shared_data.sic_name} ELSE {}),
                tail_numbers |-> acc.tail_numbers
                      \cup (IF Truthy(shared_data.tail_number)
                            THEN {shared_data.tail_number} ELSE {})])

\* iterating None raises TypeError; a leg without id raises in
\* extract_shared_flight_data, and nothing here catches it
collect_lookup_sets_raises(flight_data) ==
    flight_data.isNone \/ \E i \in 1..Len(flight_data.legs) : Raises(flight_data.legs[i])

collect_lookup_sets(flight_data) ==
    CollectLoop(flight_data.legs, NULL, [crew_names |-> {}, tail_numbers |-> {}])

\* without the test that the tail number is present
Unresolved_any_tail(tail_number, aircraft_id) ==
    aircraft_id = NULL \/ aircraft_id = 0

Unresolved_zero_only(tail_number, aircraft_id) ==
    Truthy(tail_number) /\ aircraft_id = 0

\* the check that drops a leg whose tail number the aircraft map does not resolve
Unresolved(tail_number, aircraft_id) ==
    Truthy(tail_number) /\ (aircraft_id = NULL \/ aircraft_id = 0)

RECURSIVE TransformLoop(_, _, _, _)
TransformLoop(legs, lookups, utcnow, acc) ==
    IF legs = <<>> THEN acc
    ELSE LET flight == Head(legs)
             rest == Tail(legs)
         IN  IF Raises(flight) THEN TransformLoop(rest, lookups, utcnow, acc)
             ELSE LET shared_data == extract_shared_flight_data(flight, utcnow)
                      aircraft_id == IF Truthy(shared_data.tail_number)
                                     THEN Get(lookups.aircraft, shared_data.tail_number)
                                     ELSE NULL
                  IN  IF Unresolved(shared_data.tail_number, aircraft_id)
                      THEN TransformLoop(rest, lookups, utcnow,
                             [acc EXCEPT !.skipped_flights =
                                  Append(@, [fms_id |-> shared_data.fms_id,
                                             tail_number |-> shared_data.tail_number])])
                      ELSE TransformLoop(rest, lookups, utcnow,
                             [acc EXCEPT
                                !.movements =
                                    Append(@, build_movement_record(shared_data, lookups)),
                                !.crew_assignments =
                                    @ \o build_crew_assignment_records(
                                             shared_data, aircraft_id, lookups.crew)])

transform_flight_data(flight_data, lookups, utcnow) ==
    TransformLoop(flight_data.legs, lookups, utcnow,
                  [movements |-> <<>>, crew_assignments |-> <<>>, skipped_flights |-> <<>>])

\* the messages transform_flight_data writes to the log, as a set of
\* [kind, subject]: the error of a leg that raised, the crew names and tail
\* numbers the maps do not resolve, the skipped flights
transform_log(flight_data, lookups, utcnow) ==
    LET legs == flight_data.legs
        ok == {i \in 1..Len(legs) : ~Raises(legs[i])}
        shared(i) == extract_shared_flight_data(legs[i], utcnow)
        unmatched(i) == {k \in 1..Len(shared(i).crew_members) :
                            /\ Truthy(shared(i).crew_members[k].name)
                            /\ Get(lookups.crew, shared(i).crew_members[k].name)
                                   \in {NULL, 0}}
        skipped == {i \in ok :
                       Unresolved(shared(i).tail_number,
                                  IF Truthy(shared(i).tail_number)
                                  THEN Get(lookups.aircraft, shared(i).tail_number)
                                  ELSE NULL)}
    IN  {[kind |-> "Error transforming flight record", subject |-> "unknown"] :
             i \in (1..Len(legs)) \ ok}
        \cup UNION {{[kind |-> "Crew not found",
                      subject |-> shared(i).crew_members[k].name] : k \in unmatched(i)} :
                    i \in ok}
        \cup {[kind |-> "Aircraft not found", subject |-> shared(i).tail_number] :
                 i \in skipped}
        \cup {[kind |-> "SKIPPED", subject |-> shared(i).fms_id] : i \in skipped}


---------------------------------------------------------------------------
(* loaders/flight_loader.py: the SQL statements *)

SetMin(S) == CHOOSE x \in S : \A y \in S : x <= y
SetMax(S) == CHOOSE x \in S : \A y \in S : x >= y

\* WHERE outtime >= :start_date AND outtime <= :end_date, the two bounds being
\* parse_iso_datetime(...).strftime('%Y-%m-%d %H:%M:%S'); NULL matches nothing
InRange(outtime, start_date, end_date) ==
    /\ outtime # NULL
    /\ outtime >= parse_iso_datetime(start_date)
    /\ outtime <= parse_iso_datetime(end_date)

clear_table_by_calendar_date(table, is_initial, start_date, end_date) ==
    IF is_initial THEN EmptyMap
    ELSE [id \in {i \in DOMAIN table :
                    ~ /\ table[i].outtime # NULL
                      /\ DateOf(table[i].outtime) >= DateOf(parse_iso_datetime(start_date))
                      /\ DateOf(table[i].outtime) <= DateOf(parse_iso_datetime(end_date))}
             |-> table[id]]

clear_table(table, is_initial, start_date, end_date) ==
    IF is_initial THEN EmptyMap
    ELSE [id \in {i \in DOMAIN table : ~InRange(table[i].outtime, start_date, end_date)}
             |-> table[id]]

\* the column list of INSERT INTO movement (...) SELECT ... FROM movement_temp
MovementColumns(new) ==
    [id |-> new.id, demandid |-> new.demandid, aircraftid |-> new.aircraftid,
     outtime |-> new.outtime, offtime |-> new.offtime, ontime |-> new.ontime,
     intime |-> new.intime, flighttime |-> new.flighttime, blocktime |-> new.blocktime,
     status |-> new.status, picid |-> new.picid, sicid |-> new.sicid,
     fmsid |-> new.fmsid, createtime |-> new.createtime, pic |-> new.pic,
     sic |-> new.sic, tailnumber |-> new.tailnumber, isposition |-> new.isposition]

\* the column list of INSERT INTO demand (...) SELECT ... FROM movement_temp
DemandColumns(new) ==
    [id |-> new.id, legnumber |-> 1, requestaircrafttypeid |-> NULL,
     requestaircraftcategoryid |-> NULL, aircraftid |-> new.aircraftid,
     outtime |-> new.outtime, intime |-> new.intime, flighttime |-> new.flighttime,
     blocktime |-> new.blocktime, status |-> new.status, fmsid |-> new.tripid,
     createtime |-> new.createtime]

Put(table, row) ==
    [id \in DOMAIN table \cup {row.id} |-> IF id = row.id THEN row ELSE table[id]]

\* INSERT IGNORE: a row whose key exists is left as it is
RECURSIVE insert_ignore(_, _)
insert_ignore(table, temp) ==
    IF temp = <<>> THEN table
    ELSE insert_ignore(IF Head(temp).id \in DOMAIN table THEN table
                       ELSE Put(table, MovementColumns(Head(temp))), Tail(temp))

\* INSERT INTO movement ... SELECT ... FROM movement_temp AS new
\* ON DUPLICATE KEY UPDATE <every non-key column> = new.<column>
RECURSIVE upsert_movement(_, _)
upsert_movement(table, temp) ==
    IF temp = <<>> THEN table
    ELSE upsert_movement(Put(table, MovementColumns(Head(temp))), Tail(temp))

\* INSERT INTO demand ... SELECT ... FROM movement_temp AS new WHERE isposition = 0
\* ON DUPLICATE KEY UPDATE ...
RECURSIVE upsert_demand(_, _)
upsert_demand(table, temp) ==
    IF temp = <<>> THEN table
    ELSE upsert_demand(IF Head(temp).isposition = 0
                       THEN Put(table, DemandColumns(Head(temp))) ELSE table, Tail(temp))

\* result.rowcount of an INSERT ... ON DUPLICATE KEY UPDATE on a connection
\* that reports found rows: 1 for an insert, 2 for a row changed, 1 for a
\* row found and left as it was
RECURSIVE rowcount(_, _)
rowcount(table, rows) ==
    IF rows = <<>> THEN 0
    ELSE LET row == Head(rows)
         IN  (IF row.id \notin DOMAIN table THEN 1
              ELSE IF table[row.id] = row THEN 1 ELSE 2)
             + rowcount(Put(table, row), Tail(rows))

MovementRows(temp) == [i \in 1..Len(temp) |-> MovementColumns(temp[i])]

\* SELECT ... FROM movement_temp has no ORDER BY: the rows arrive in any order
ScanOrders(temp) ==
    {[i \in 1..Len(temp) |-> temp[f[i]]] :
        f \in {g \in [1..Len(temp) -> 1..Len(temp)] :
                  \A i, j \in 1..Len(temp) : g[i] = g[j] => i = j}}
DemandRows(temp) ==
    LET q == SelectSeq(temp, LAMBDA r : r.isposition = 0)
    IN  [i \in 1..Len(q) |-> DemandColumns(q[i])]

\* api_client.get_trip(tripid) followed by _extract_aircraft_info_from_leg on
\* the leg with the given id: the (type, category) the provider reports
TripLegInfo(tripid, fmsid) ==
    IF tripid = "t1" /\ fmsid = "e1" THEN [type_id |-> 7, category_id |-> 3]
    ELSE [type_id |-> NULL, category_id |-> NULL]

\* UPDATE demand SET requestaircrafttypeid, requestaircraftcategoryid WHERE id = :demandid
\* for every (demandid, fmsid, tripid) of movement_temp that yields a type or category
AircraftRequestUpdates(temp) ==
    {[demandid |-> temp[i].demandid,
      type_id |-> TripLegInfo(temp[i].tripid, temp[i].fmsid).type_id,
      category_id |-> TripLegInfo(temp[i].tripid, temp[i].fmsid).category_id] :
        i \in {j \in 1..Len(temp) :
                 /\ temp[j].demandid # NULL
                 /\ temp[j].tripid # NONE
                 /\ \/ TripLegInfo(temp[j].tripid, temp[j].fmsid).type_id # NULL
                    \/ TripLegInfo(temp[j].tripid, temp[j].fmsid).category_id # NULL}}

populate_demand_aircraft_requests(table, temp) ==
    LET updates == AircraftRequestUpdates(temp)
    IN  [id \in DOMAIN table |->
            IF \E u \in updates : u.demandid = id
            THEN LET u == CHOOSE u \in updates : u.demandid = id
                 IN  [table[id] EXCEPT !.requestaircrafttypeid = u.type_id,
                                       !.requestaircraftcategoryid = u.category_id]
            ELSE table[id]]

\* get_flight_date_range: min and max date of the parseable scheduled departures
FlightDates(flight_data) ==
    {DateOf(parse_iso_datetime(flight_data.legs[i].scheduledDepartureDateUTC)) :
        i \in {j \in 1..Len(flight_data.legs) :
                 parse_iso_datetime(flight_data.legs[j].scheduledDepartureDateUTC) # NULL}}

get_flight_date_range(flight_data) ==
    IF FlightDates(flight_data) = {} THEN <<NULL, NULL>>
    ELSE <<SetMin(FlightDates(flight_data)), SetMax(FlightDates(flight_data))>>

---------------------------------------------------------------------------
(* loaders/crew_assignment_loader.py *)

crew_pre_flt_min == 60
crew_post_flt_min == 30
cutoff_hour == 9

\* HOUR(starttime) > :cutoff_hour, a start at 09:00 falling on the day before
DutyDate_after_cutoff(starttime) ==
    IF HourOf(starttime) > cutoff_hour THEN DateOf(starttime) ELSE DateOf(starttime) - 1

DutyDate(starttime) ==
    IF HourOf(starttime) >= cutoff_hour THEN DateOf(starttime) ELSE DateOf(starttime) - 1

\* the inner SELECT: staged rows with crew id, start and end, and their duty date
TempWithDutyDate(temp) ==
    {i \in 1..Len(temp) :
        temp[i].crewid # NULL /\ temp[i].starttime # NULL /\ temp[i].endtime # NULL}

GroupKey(row) ==
    [crewid |-> row.crewid, aircraftid |-> row.aircraftid,
     dutydate |-> DutyDate(row.starttime), positionid |-> row.positionid]

\* no GROUP BY: one padded shift per staged row
Shifts_per_row(temp) ==
    {[crewid |-> temp[i].crewid, dutydate |-> DutyDate(temp[i].starttime),
      aircraftid |-> temp[i].aircraftid, positionid |-> temp[i].positionid,
      starttime |-> temp[i].starttime - crew_pre_flt_min,
      endtime |-> temp[i].endtime + crew_post_flt_min,
      fmsid |-> {temp[i].fmsid}, tailnumber |-> {temp[i].tailnumber}] :
     i \in TempWithDutyDate(temp)}

\* GROUP BY crewid, aircraftid, dutydate, positionid
Shifts(temp) ==
    {LET members == {i \in TempWithDutyDate(temp) : GroupKey(temp[i]) = k}
     IN  [crewid |-> k.crewid, dutydate |-> k.dutydate, aircraftid |-> k.aircraftid,
          positionid |-> k.positionid,
          starttime |-> SetMin({temp[i].starttime - crew_pre_flt_min : i \in members}),
          endtime |-> SetMax({temp[i].endtime + crew_post_flt_min : i \in members}),
          fmsid |-> {temp[i].fmsid : i \in members},
          tailnumber |-> {temp[i].tailnumber : i \in members}] :
     k \in {GroupKey(temp[i]) : i \in TempWithDutyDate(temp)}}

\* crewassignment is a multiset of shift rows (its key is auto-increment):
\* DELETE ... WHERE dutydate BETWEEN :min_date AND :max_date, then the INSERT
transfer_temp_to_target(target, temp, min_date, max_date) ==
    LET kept == {r \in DOMAIN target : ~(r.dutydate >= min_date /\ r.dutydate <= max_date)}
        new == Shifts(temp)
    IN  [r \in kept \cup new |->
            (IF r \in kept THEN target[r] ELSE 0) + (IF r \in new THEN 1 ELSE 0)]


---------------------------------------------------------------------------
(* crew_events_loader.py: calculate_crew_availability *)

AvailCutoffHour == 12

\* WITH RECURSIVE numbers: 0, then day_id + 1 while day_id < DATEDIFF(end, start)
Numbers(start_time, end_time) ==
    {0} \cup {n \in 1..(MaxAvailDay + 1) : n - 1 < DateOf(end_time) - DateOf(start_time)}

\* HOUR(cu2.endtime) >= :cutoff_hour
EndsAfterCutoff_inclusive(endtime, cutoff) == HourOf(endtime) >= cutoff

\* HOUR(cu2.endtime) > :cutoff_hour
EndsAfterCutoff(endtime, cutoff) == HourOf(endtime) > cutoff

\* crewavaildate is a set of rows [crewid, availdate]; crew maps id to isactive
calculate_crew_availability(avail, crew, unavail, start_time, end_time, cutoff, is_initial) ==
    LET cleared ==
            IF is_initial THEN {}
            ELSE {r \in avail : ~(r.availdate >= DateOf(start_time)
                                  /\ r.availdate <= DateOf(end_time))}
        c == {[crewid |-> id, availdate |-> DateOf(start_time) + n] :
                 id \in {x \in DOMAIN crew : crew[x] = 1},
                 n \in Numbers(start_time, end_time)}
        cu(r) == {u \in unavail :
                     /\ r.crewid = u.crewid
                     /\ r.availdate >= DateOf(u.starttime)
                     /\ r.availdate <= DateOf(u.endtime) - 1}
        cu2(r) == {u \in unavail :
                      /\ r.crewid = u.crewid
                      /\ r.availdate = DateOf(u.endtime)
                      /\ EndsAfterCutoff(u.endtime, cutoff)}
        selected == {r \in c : cu(r) = {} /\ cu2(r) = {}}
    IN  [table |-> cleared \cup selected,
         rowcount |-> Cardinality(selected \ cleared)]


---------------------------------------------------------------------------
(* crew_loader.py: populate_crew_qualifications_from_flight_data *)

\* aircraft.id -> aircraft.aircrafttypeid
AircraftTypes == [id \in {11, 12, 13} |-> id - 10]

\* CASE WHEN ac.aircrafttypeid IN (1,2) THEN 1 ELSE ac.aircrafttypeid END
NormalizedType(aircrafttypeid) == IF aircrafttypeid \in {1, 2} THEN 1 ELSE aircrafttypeid

\* the groups (crew id, aircraft type) of the movements that name someone in
\* the position: movement LEFT JOIN aircraft LEFT JOIN crew, GROUP BY
PositionGroups(movements, position) ==
    {<<Get(CrewTable, m[position]), NormalizedType(Get(AircraftTypes, m.aircraftid))>> :
        m \in {x \in movements : x[position] # NONE}}

\* ROW_NUMBER() OVER (PARTITION BY crew id ORDER BY aircrafttypeid); NULL sorts first
RowNumber(groups, g) == 1 + Cardinality({h \in groups : h[1] = g[1] /\ h[2] < g[2]})

QualificationRows(groups, positionid) ==
    {[crewid |-> g[1], aircrafttypeid |-> g[2], positionid |-> positionid,
      typecount |-> RowNumber(groups, g), updatedby |-> "avianis_etl"] : g \in groups}

\* no anti-join: every SIC group is inserted
AlreadyQualified_never(table, g) == FALSE

\* LEFT JOIN crewqualification cq ON c.id = cq.crewid AND c.aircrafttypeid =
\* cq.aircrafttypeid finds a row; = is not true when a side is NULL
AlreadyQualified(table, g) ==
    /\ g[1] # NULL
    /\ g[2] # NULL
    /\ \E cq \in table : cq.crewid = g[1] /\ cq.aircrafttypeid = g[2]

\* DELETE FROM crewqualification, the PIC insert, the SIC insert, each committed
populate_crew_qualifications_from_flight_data(crewqualification, movements) ==
    LET pic == QualificationRows(PositionGroups(movements, "pic"), 1)
        sic_groups == {g \in PositionGroups(movements, "sic") : ~AlreadyQualified(pic, g)}
    IN  pic \cup QualificationRows(sic_groups, 2)

---------------------------------------------------------------------------
(* avianis_api.py: _get_paginated_data *)

\* the records of page number page: record k of page p is <<p, k>>; a page
\* past the last one is an empty list
PageData(page) ==
    IF page \in 1..Len(api.pages) THEN [k \in 1..api.pages[page] |-> <<page, k>>]
    ELSE <<>>

\* result: all_data if all_data else None
PagerResult(all_data) == [isNone |-> all_data = <<>>, records |-> all_data]

NoPager == [pc |-> "idle", page |-> 0, all_data |-> <<>>, failed |-> {},
            result |-> [isNone |-> TRUE, records |-> <<>>]]

---------------------------------------------------------------------------
(* Inputs of the loader *)

Leg(id, tail, dep, empty, status, created, crew) ==
    [id |-> id, tripID |-> "t1", tailNumber |-> tail,
     scheduledDepartureDateUTC |-> dep,
     scheduledArrivalDateUTC |->
         IF dep.fmt = "datetime" THEN IsoDateTime(dep.day, dep.min + 120) ELSE dep,
     isEmpty |-> empty, status |-> status, createDate |-> created, crew |-> crew]

Pilot(position, first, last) ==
    [crewPosition |-> position, firstName |-> first, lastName |-> last]

\* e1 at 10:00 of day 1; the same leg delivered again as a cancelled empty leg;
\* e2 at 10:00 of day 0 without createDate; e3 on a tail no aircraft row has;
\* e1 with two PIC entries on its roster; a leg that carries no id
LoaderLegs ==
    {Leg("e1", "N1", IsoDateTime(1, 600), "False", "Scheduled", UsDateTime(0, 0),
         <<Pilot("PIC", "A", "B")>>),
     Leg("e1", "N1", IsoDateTime(1, 600), "True", "Cancelled", UsDateTime(0, 0),
         <<Pilot("PIC", "A", "B")>>),
     Leg("e2", "N1", IsoDateTime(0, 600), "False", "Scheduled", IsoAbsent, <<>>),
     Leg("e3", "NX", IsoDateTime(1, 0), "False", "Scheduled", UsDateTime(0, 0), <<>>),
     Leg("e1", "N1", IsoDateTime(1, 600), "False", "Scheduled", UsDateTime(0, 0),
         <<Pilot("PIC", "C", "D"), Pilot("PIC", "A", "B")>>),
     Leg(NONE, "N1", IsoDateTime(1, 600), "False", "Scheduled", UsDateTime(0, 0), <<>>)}

LoaderBatches ==
    {FlightDataNone} \cup {FlightData(legs) : legs \in SeqsUpTo(LoaderLegs, MaxBatch)}

Days == 0..MaxDay

\* (is_initial, start_date, end_date) as DateRangeManager hands them out: date-only
\* strings, start <= end; an initial load spans all the days
DateRanges ==
    {[is_initial |-> FALSE, start_date |-> IsoDate(p[1]), end_date |-> IsoDate(p[2])] :
        p \in {q \in Days \X Days : q[1] <= q[2]}}
    \cup {[is_initial |-> TRUE, start_date |-> IsoDate(0), end_date |-> IsoDate(MaxDay)]}

\* sha256(x).digest()[:4] of the external ids the loader sees
LoaderSha ==
    [x \in {"e1", "e2", "e3"} |->
        CASE x = "e1" -> <<0, 0, 0, 0>>
          [] x = "e2" -> <<0, 0, 0, 1>>
          [] OTHER -> <<255, 255, 255, 255>>]

---------------------------------------------------------------------------
(* FlightLoader.process_flight_schedules *)

Args(flight_data, is_initial, start_date, end_date) ==
    [flight_data |-> flight_data, is_initial |-> is_initial,
     start_date |-> start_date, end_date |-> end_date]

NoArgs == Args(FlightDataNone, FALSE, IsoAbsent, IsoAbsent)

NoResults ==
    [movement_temp_loaded |-> NULL, crew_assignments_loaded |-> NULL,
     movement_loaded |-> NULL, demand_loaded |-> NULL,
     demand_aircraft_requests_populated |-> NULL, crew_shifts_loaded |-> NULL]

\* failed_at: the step whose exception ended the run; cleanup: what became of the
\* TRUNCATE of crewassignment_temp in transfer_temp_to_target
NoRun == [args |-> NoArgs, movement_records |-> <<>>, crew_assignment_records |-> <<>>,
          failed_at |-> "none", cleanup |-> "none"]

\* transform_flight_data has not been called on its own
TransformIdle ==
    /\ tIn = [flight_data |-> FlightDataNone,
              lookups |-> [crew |-> EmptyMap, aircraft |-> EmptyMap]]
    /\ tOut = [called |-> FALSE, movements |-> <<>>, crew_assignments |-> <<>>,
               skipped_flights |-> <<>>]

\* transfer_temp_to_target has not been called on its own
TransferIdle ==
    /\ cIn = [temp |-> <<>>, target |-> EmptyMap, min_date |-> 0, max_date |-> 0]
    /\ cOut = [called |-> FALSE, target |-> EmptyMap, rowcount |-> 0]

\* calculate_crew_availability has not been called
AvailabilityIdle ==
    /\ aIn = [crew |-> EmptyMap, crewunavaildate |-> {}, crewavaildate |-> {},
              start_time |-> 0, end_time |-> 0, cutoff_hour |-> 0, is_initial |-> FALSE]
    /\ aOut = [called |-> FALSE, crewavaildate |-> {}, rowcount |-> 0]

\* populate_crew_qualifications_from_flight_data has not been called
QualificationIdle ==
    /\ qIn = [movement |-> {}, crewqualification |-> {}]
    /\ qOut = [called |-> FALSE, crewqualification |-> {}]

\* _get_paginated_data has not been called
PaginationIdle ==
    /\ api = [pages |-> <<>>, fails |-> {}]
    /\ pager = NoPager

LoaderInit ==
    /\ movement = EmptyMap
    /\ demand = EmptyMap
    /\ movement_temp = <<>>
    /\ crewassignment_temp = <<>>
    /\ crewassignment = EmptyMap
    /\ pc = "idle"
    /\ run = NoRun
    /\ results = NoResults
    /\ mvWorker = "idle"
    /\ crewWorker = "idle"
    /\ now = 0
    /\ before = [movement |-> EmptyMap, demand |-> EmptyMap, crewassignment |-> EmptyMap]
    /\ prev = [args |-> NoArgs, ok |-> FALSE, allOk |-> TRUE,
               movement |-> EmptyMap, demand |-> EmptyMap]

tables == <<movement, demand, movement_temp, crewassignment_temp, crewassignment>>

Finished == pc \in {"done", "failed"}

\* what every call does first: the clock has moved on, the tables are as the
\* last run left them
Enter(args) ==
    /\ pc = "idle" \/ Finished
    /\ now < MaxRuns
    /\ now' = now + 1
    /\ before' = [movement |-> movement, demand |-> demand,
                   crewassignment |-> crewassignment]
    /\ prev' = IF pc = "idle" THEN prev
               ELSE IF pc = "done"
               THEN [args |-> run.args, ok |-> TRUE, allOk |-> prev.allOk,
                     movement |-> movement, demand |-> demand]
               ELSE [args |-> NoArgs, ok |-> FALSE, allOk |-> FALSE,
                     movement |-> EmptyMap, demand |-> EmptyMap]
    /\ results' = NoResults
    /\ UNCHANGED tables

\* Step 0 raises: collect_lookup_sets is outside any per-leg try
StartRaises(flight_data, is_initial, start_date, end_date) ==
    /\ Enter(Args(flight_data, is_initial, start_date, end_date))
    /\ collect_lookup_sets_raises(flight_data)
    /\ run' = [NoRun EXCEPT !.args = Args(flight_data, is_initial, start_date, end_date),
                            !.failed_at = "step0"]
    /\ pc' = "failed"
    /\ mvWorker' = "idle"
    /\ crewWorker' = "idle"
    /\ UNCHANGED functionVars

\* Step 0, and the submission of the two staging tasks
Start(flight_data, is_initial, start_date, end_date) ==
    /\ Enter(Args(flight_data, is_initial, start_date, end_date))
    /\ ~collect_lookup_sets_raises(flight_data)
    /\ LET lookup_sets == collect_lookup_sets(flight_data)
           lookups == get_bulk_lookups(lookup_sets.crew_names, lookup_sets.tail_numbers)
           transformed_data == transform_flight_data(flight_data, lookups, now')
       IN  /\ run' = [args |-> Args(flight_data, is_initial, start_date, end_date),
                      movement_records |-> transformed_data.movements,
                      crew_assignment_records |-> transformed_data.crew_assignments,
                      failed_at |-> "none", cleanup |-> "none"]
           /\ mvWorker' = IF transformed_data.movements = <<>> THEN "done" ELSE "truncate"
           /\ crewWorker' = IF transformed_data.crew_assignments = <<>> THEN "done"
                            ELSE "delete"
    /\ pc' = "staging"
    /\ UNCHANGED functionVars

\* load_to_movement_temp: TRUNCATE TABLE movement_temp, commit
MvTruncate ==
    /\ pc = "staging" /\ mvWorker = "truncate"
    /\ movement_temp' = <<>>
    /\ mvWorker' = "insert"
    /\ UNCHANGED <<movement, demand, crewassignment_temp, crewassignment, pc, run, results,
                   crewWorker, now, before, prev>>
    /\ UNCHANGED functionVars

\* load_to_movement_temp: df.to_sql('movement_temp', if_exists='append')
MvInsert ==
    /\ pc = "staging" /\ mvWorker = "insert"
    /\ movement_temp' = movement_temp \o run.movement_records
    /\ mvWorker' = "done"
    /\ UNCHANGED <<movement, demand, crewassignment_temp, crewassignment, pc, run, results,
                   crewWorker, now, before, prev>>
    /\ UNCHANGED functionVars

\* either statement of load_to_movement_temp raises
MvFail ==
    /\ pc = "staging" /\ mvWorker \in {"truncate", "insert"}
    /\ mvWorker' = "failed"
    /\ UNCHANGED <<tables, pc, run, results, crewWorker, now, before, prev>>
    /\ UNCHANGED functionVars

\* reset_and_load_crew_assignments_temp: DELETE FROM crewassignment_temp, commit
CrewDelete ==
    /\ pc = "staging" /\ crewWorker = "delete"
    /\ crewassignment_temp' = <<>>
    /\ crewWorker' = "insert"
    /\ UNCHANGED <<movement, demand, movement_temp, crewassignment, pc, run, results,
                   mvWorker, now, before, prev>>
    /\ UNCHANGED functionVars

\* reset_and_load_crew_assignments_temp: to_sql('crewassignment_temp')
CrewInsert ==
    /\ pc = "staging" /\ crewWorker = "insert"
    /\ crewassignment_temp' = crewassignment_temp \o run.crew_assignment_records
    /\ crewWorker' = "done"
    /\ UNCHANGED <<movement, demand, movement_temp, crewassignment, pc, run, results,
                   mvWorker, now, before, prev>>
    /\ UNCHANGED functionVars

CrewFail ==
    /\ pc = "staging" /\ crewWorker \in {"delete", "insert"}
    /\ crewWorker' = "failed"
    /\ UNCHANGED <<tables, pc, run, results, mvWorker, now, before, prev>>
    /\ UNCHANGED functionVars

WorkersFinished == mvWorker \in {"done", "failed"} /\ crewWorker \in {"done", "failed"}

\* result() of the first future alone, without the wait of the with-block
Join_first_future_only ==
    /\ pc = "staging" /\ mvWorker = "done"
    /\ results' = [results EXCEPT
                     !.movement_temp_loaded = Len(run.movement_records),
                     !.crew_assignments_loaded = Len(run.crew_assignment_records)]
    /\ pc' = "port_clear"
    /\ UNCHANGED <<tables, run, mvWorker, crewWorker, now, before, prev>>
    /\ UNCHANGED functionVars

\* leaving the with-block: both futures are finished, result() returns the counts
Join ==
    /\ pc = "staging" /\ mvWorker = "done" /\ crewWorker = "done"
    /\ results' = [results EXCEPT
                     !.movement_temp_loaded = Len(run.movement_records),
                     !.crew_assignments_loaded = Len(run.crew_assignment_records)]
    /\ pc' = "port_clear"
    /\ UNCHANGED <<tables, run, mvWorker, crewWorker, now, before, prev>>
    /\ UNCHANGED functionVars

\* result() re-raises the exception of a failed task
JoinRaises ==
    /\ pc = "staging" /\ WorkersFinished
    /\ mvWorker = "failed" \/ crewWorker = "failed"
    /\ run' = [run EXCEPT !.failed_at = "staging"]
    /\ pc' = "failed"
    /\ UNCHANGED <<tables, results, mvWorker, crewWorker, now, before, prev>>
    /\ UNCHANGED functionVars

\* one transaction around all steps: the failure undoes the earlier steps too
StepRaises_run_rollback(at) ==
    /\ pc = at
    /\ run' = [run EXCEPT !.failed_at = at]
    /\ pc' = "failed"
    /\ movement' = before.movement
    /\ demand' = before.demand
    /\ UNCHANGED <<movement_temp, crewassignment_temp, crewassignment, results,
                   mvWorker, crewWorker, now, before, prev>>
    /\ UNCHANGED functionVars

\* a statement of the current step raises: rollback of what is not yet committed, re-raise
StepRaises(at) ==
    /\ pc = at
    /\ run' = [run EXCEPT !.failed_at = at]
    /\ pc' = "failed"
    /\ UNCHANGED <<tables, results, mvWorker, crewWorker, now, before, prev>>
    /\ UNCHANGED functionVars

\* port_movement_temp_to_movement: _clear_table('movement'), which commits
PortClear ==
    /\ pc = "port_clear"
    /\ movement' = clear_table(movement, run.args.is_initial,
                               run.args.start_date, run.args.end_date)
    /\ pc' = "port_upsert"
    /\ UNCHANGED <<demand, movement_temp, crewassignment_temp, crewassignment, run, results,
                   mvWorker, crewWorker, now, before, prev>>
    /\ UNCHANGED functionVars

\* port_movement_temp_to_movement: the INSERT ... ON DUPLICATE KEY UPDATE, commit
PortUpsert ==
    /\ pc = "port_upsert"
    /\ \E scan \in ScanOrders(movement_temp) :
          /\ movement' = upsert_movement(movement, scan)
          /\ results' = [results EXCEPT
                           !.movement_loaded = rowcount(movement, MovementRows(scan))]
    /\ pc' = "demand_clear"
    /\ UNCHANGED <<demand, movement_temp, crewassignment_temp, crewassignment, run,
                   mvWorker, crewWorker, now, before, prev>>
    /\ UNCHANGED functionVars

\* load_qualifying_flights_to_demand: _clear_table('demand'), which commits
DemandClear ==
    /\ pc = "demand_clear"
    /\ demand' = clear_table(demand, run.args.is_initial,
                             run.args.start_date, run.args.end_date)
    /\ pc' = "demand_upsert"
    /\ UNCHANGED <<movement, movement_temp, crewassignment_temp, crewassignment, run, results,
                   mvWorker, crewWorker, now, before, prev>>
    /\ UNCHANGED functionVars

\* load_qualifying_flights_to_demand: the INSERT ... WHERE isposition = 0, commit
DemandUpsert ==
    /\ pc = "demand_upsert"
    /\ \E scan \in ScanOrders(movement_temp) :
          /\ demand' = upsert_demand(demand, scan)
          /\ results' = [results EXCEPT
                           !.demand_loaded = rowcount(demand, DemandRows(scan))]
    /\ pc' = "enrich"
    /\ UNCHANGED <<movement, movement_temp, crewassignment_temp, crewassignment, run,
                   mvWorker, crewWorker, now, before, prev>>
    /\ UNCHANGED functionVars

\* populate_demand_aircraft_requests: the UPDATEs and their commit
Enrich ==
    /\ pc = "enrich"
    /\ demand' = populate_demand_aircraft_requests(demand, movement_temp)
    /\ results' = [results EXCEPT !.demand_aircraft_requests_populated =
                                     Cardinality(AircraftRequestUpdates(movement_temp))]
    /\ pc' = "transfer"
    /\ UNCHANGED <<movement, movement_temp, crewassignment_temp, crewassignment, run,
                   mvWorker, crewWorker, now, before, prev>>
    /\ UNCHANGED functionVars

\* Step 4 when get_flight_date_range finds no date: nothing is transferred
NoTransfer ==
    /\ pc = "transfer"
    /\ get_flight_date_range(run.args.flight_data)[1] = NULL
    /\ results' = [results EXCEPT !.crew_shifts_loaded = 0]
    /\ pc' = "done"
    /\ UNCHANGED <<tables, run, mvWorker, crewWorker, now, before, prev>>
    /\ UNCHANGED functionVars

\* transfer_temp_to_target: DELETE and INSERT of the shifts, one commit
Transfer ==
    /\ pc = "transfer"
    /\ get_flight_date_range(run.args.flight_data)[1] # NULL
    /\ crewassignment' = transfer_temp_to_target(crewassignment, crewassignment_temp,
                             get_flight_date_range(run.args.flight_data)[1],
                             get_flight_date_range(run.args.flight_data)[2])
    /\ pc' = "transfer_gc"
    /\ UNCHANGED <<movement, demand, movement_temp, crewassignment_temp, run, results,
                   mvWorker, crewWorker, now, before, prev>>
    /\ UNCHANGED functionVars

\* the DELETE or the INSERT raises: rollback, then the cleanup of the except branch
TransferRaises ==
    /\ pc = "transfer"
    /\ get_flight_date_range(run.args.flight_data)[1] # NULL
    /\ run' = [run EXCEPT !.failed_at = "transfer"]
    /\ pc' = "transfer_cleanup"
    /\ UNCHANGED <<tables, results, mvWorker, crewWorker, now, before, prev>>
    /\ UNCHANGED functionVars

\* transfer_temp_to_target: TRUNCATE TABLE crewassignment_temp after the commit,
\* then the return of the inserted count
TransferGc ==
    /\ pc = "transfer_gc"
    /\ crewassignment_temp' = <<>>
    /\ run' = [run EXCEPT !.cleanup = "done"]
    /\ results' = [results EXCEPT
                     !.crew_shifts_loaded = Cardinality(Shifts(crewassignment_temp))]
    /\ pc' = "done"
    /\ UNCHANGED <<movement, demand, movement_temp, crewassignment,
                   mvWorker, crewWorker, now, before, prev>>
    /\ UNCHANGED functionVars

\* that TRUNCATE raises: the except branch runs with the shifts already committed
TransferGcRaises ==
    /\ pc = "transfer_gc"
    /\ run' = [run EXCEPT !.failed_at = "transfer_gc"]
    /\ pc' = "transfer_cleanup"
    /\ UNCHANGED <<tables, results, mvWorker, crewWorker, now, before, prev>>
    /\ UNCHANGED functionVars

\* the except branch: TRUNCATE TABLE crewassignment_temp, then re-raise
Cleanup ==
    /\ pc = "transfer_cleanup"
    /\ crewassignment_temp' = <<>>
    /\ run' = [run EXCEPT !.cleanup = "done"]
    /\ pc' = "failed"
    /\ UNCHANGED <<movement, demand, movement_temp, crewassignment, results,
                   mvWorker, crewWorker, now, before, prev>>
    /\ UNCHANGED functionVars

\* the cleanup itself raises: swallowed (except: pass), then re-raise
CleanupRaises ==
    /\ pc = "transfer_cleanup"
    /\ run' = [run EXCEPT !.cleanup = "failed"]
    /\ pc' = "failed"
    /\ UNCHANGED <<tables, results, mvWorker, crewWorker, now, before, prev>>
    /\ UNCHANGED functionVars

Next ==
    \/ \E flight_data \in LoaderBatches, range \in DateRanges :
          \/ StartRaises(flight_data, range.is_initial, range.start_date, range.end_date)
          \/ Start(flight_data, range.is_initial, range.start_date, range.end_date)
    \/ MvTruncate \/ MvInsert \/ MvFail
    \/ CrewDelete \/ CrewInsert \/ CrewFail
    \/ Join \/ JoinRaises
    \/ PortClear \/ PortUpsert \/ DemandClear \/ DemandUpsert \/ Enrich
    \/ \E at \in {"port_clear", "port_upsert", "demand_clear", "demand_upsert", "enrich"} :
          StepRaises(at)
    \/ NoTransfer \/ Transfer \/ TransferRaises
    \/ TransferGc \/ TransferGcRaises \/ Cleanup \/ CleanupRaises

Init ==
    /\ sha = LoaderSha
    /\ calls = {}
    /\ TransformIdle
    /\ TransferIdle
    /\ AvailabilityIdle
    /\ QualificationIdle
    /\ PaginationIdle
    /\ LoaderInit

Spec == Init /\ [][Next]_vars

---------------------------------------------------------------------------
(* process_flight_schedules when two external ids share a stable id *)

\* the first four hash bytes of e2 are 900000: e1 and e2 both map to 100000
CollisionSha ==
    [x \in {"e1", "e2", "e3"} |->
        CASE x = "e1" -> <<0, 0, 0, 0>>
          [] x = "e2" -> <<0, 13, 187, 160>>
          [] OTHER -> <<255, 255, 255, 255>>]

CollisionInit ==
    /\ sha = CollisionSha
    /\ calls = {}
    /\ TransformIdle
    /\ TransferIdle
    /\ AvailabilityIdle
    /\ QualificationIdle
    /\ PaginationIdle
    /\ LoaderInit

SpecCollision == CollisionInit /\ [][Next]_vars


---------------------------------------------------------------------------
(* generate_stable_id on its own: any hash prefix, any range *)

StableIdInputs == {"e1", "e2"}

\* four-byte prefixes: 0, 1, 899999, 900000 and 2^32 - 1
HashSamples ==
    {<<0, 0, 0, 0>>, <<0, 0, 0, 1>>, <<0, 13, 187, 159>>, <<0, 13, 187, 160>>,
     <<255, 255, 255, 255>>}

IdRanges == {<<DefaultMinId, DefaultMaxId>>, <<5, 5>>, <<1, 3>>}

StableIdInit ==
    /\ sha \in [StableIdInputs -> HashSamples]
    /\ calls = {}
    /\ TransformIdle
    /\ TransferIdle
    /\ AvailabilityIdle
    /\ QualificationIdle
    /\ PaginationIdle
    /\ LoaderInit

Call(fms_id, min_id, max_id) ==
    /\ Cardinality(calls) < MaxCalls
    /\ calls' = calls \cup {[fms_id |-> fms_id, min_id |-> min_id, max_id |-> max_id,
                             result |-> generate_stable_id(fms_id, min_id, max_id)]}
    /\ UNCHANGED <<sha, transformVars, transferVars, availabilityVars, qualificationVars, paginationVars,
                   loaderVars>>

StableIdNext == \E fms_id \in StableIdInputs, r \in IdRanges : Call(fms_id, r[1], r[2])

SpecStableId == StableIdInit /\ [][StableIdNext]_vars

---------------------------------------------------------------------------
(* transform_flight_data on its own: any batch, any lookup maps *)

TransformLegs ==
    {Leg(id, tail, IsoDateTime(1, 600), empty, "Scheduled", UsDateTime(0, 0), crew) :
        id \in {"e1", NONE}, tail \in {NONE, "N1", "NX"},
        empty \in {"False", "True", "None"},
        crew \in {<<>>, <<Pilot("PIC", "A", "B"), Pilot("SIC", "C", "D")>>}}

TransformInit ==
    /\ sha = LoaderSha
    /\ calls = {}
    /\ tIn \in [flight_data : {FlightDataNone} \cup
                              {FlightData(legs) : legs \in SeqsUpTo(TransformLegs, MaxBatch)},
                lookups : [crew : {EmptyMap, CrewTable},
                           aircraft : {EmptyMap, AircraftTable}]]
    /\ tOut = [called |-> FALSE, movements |-> <<>>, crew_assignments |-> <<>>,
               skipped_flights |-> <<>>]
    /\ TransferIdle
    /\ AvailabilityIdle
    /\ QualificationIdle
    /\ PaginationIdle
    /\ LoaderInit

Transform ==
    /\ ~tOut.called
    /\ LET out == transform_flight_data(tIn.flight_data, tIn.lookups, 0)
       IN  tOut' = [called |-> TRUE, movements |-> out.movements,
                    crew_assignments |-> out.crew_assignments,
                    skipped_flights |-> out.skipped_flights]
    /\ UNCHANGED <<tIn, stableIdVars, transferVars, availabilityVars, qualificationVars, paginationVars,
                   loaderVars>>

SpecTransform == TransformInit /\ [][Transform]_vars

---------------------------------------------------------------------------
(* transform_flight_data on one leg: any roster, any anchor timestamps *)

RosterEntries ==
    {Pilot(position, n[1], n[2]) :
        position \in {"PIC", "pic", "SIC", "FA"},
        n \in {<<"A", "B">>, <<"C", "D">>, <<"X", "Y">>}}

\* departure at 10:00 of day 1, as a date only, or absent; arrival at 12:00 or
\* absent; the tail absent, empty, known or unknown
RosterLegs ==
    {[Leg("e1", tail, dep, "False", "Scheduled", UsDateTime(0, 0), crew)
         EXCEPT !.scheduledArrivalDateUTC = arr] :
        tail \in {NONE, "", "N1", "NX"},
        dep \in {IsoDateTime(1, 600), IsoDate(1), IsoAbsent},
        arr \in {IsoDateTime(1, 720), IsoAbsent},
        crew \in SeqsUpTo(RosterEntries, MaxRoster)}

LegInit ==
    /\ sha = LoaderSha
    /\ calls = {}
    /\ tIn \in [flight_data : {FlightData(<<leg>>) : leg \in RosterLegs},
                lookups : [crew : {EmptyMap, CrewTable},
                           aircraft : {EmptyMap, AircraftTable}]]
    /\ tOut = [called |-> FALSE, movements |-> <<>>, crew_assignments |-> <<>>,
               skipped_flights |-> <<>>]
    /\ TransferIdle
    /\ AvailabilityIdle
    /\ QualificationIdle
    /\ PaginationIdle
    /\ LoaderInit

SpecLeg == LegInit /\ [][Transform]_vars

---------------------------------------------------------------------------
(* transfer_temp_to_target on its own: any staged rows *)

\* leg windows of day 1: 08:59-10:59, 09:00-11:00, 10:00-12:00, 13:00-15:00,
\* and rows without a start or an end
StagedWindows ==
    {<<MinPerDay + 539, MinPerDay + 659>>, <<MinPerDay + 540, MinPerDay + 660>>,
     <<MinPerDay + 600, MinPerDay + 720>>, <<MinPerDay + 780, MinPerDay + 900>>,
     <<NULL, NULL>>, <<MinPerDay + 600, NULL>>}

StagedAssignments ==
    {[aircraftid |-> 11, crewid |-> crewid, positionid |-> positionid,
      starttime |-> w[1], endtime |-> w[2],
      fmsid |-> IF w[1] # NULL /\ w[1] < MinPerDay + 600 THEN "e1" ELSE "e2",
      tailnumber |-> "N1", crewname |-> "a b"] :
        crewid \in {21, NULL}, positionid \in {1, 2}, w \in StagedWindows}

\* a shift of crew 22 on duty date 0, loaded by an earlier run
OldShift ==
    [crewid |-> 22, dutydate |-> 0, aircraftid |-> 11, positionid |-> 1,
     starttime |-> 540, endtime |-> 750, fmsid |-> {"e0"}, tailnumber |-> {"N1"}]

TransferInit ==
    /\ sha = LoaderSha
    /\ calls = {}
    /\ TransformIdle
    /\ cIn \in [temp : SeqsUpTo(StagedAssignments, MaxStaged),
                target : {EmptyMap, [r \in {OldShift} |-> 1]},
                min_date : Days, max_date : {MaxDay}]
    /\ cOut = [called |-> FALSE, target |-> EmptyMap, rowcount |-> 0]
    /\ AvailabilityIdle
    /\ QualificationIdle
    /\ PaginationIdle
    /\ LoaderInit

TransferCall ==
    /\ ~cOut.called
    /\ cOut' = [called |-> TRUE,
                target |-> transfer_temp_to_target(cIn.target, cIn.temp,
                                                   cIn.min_date, cIn.max_date),
                rowcount |-> Cardinality(Shifts(cIn.temp))]
    /\ UNCHANGED <<cIn, stableIdVars, transformVars, availabilityVars, qualificationVars, paginationVars,
                   loaderVars>>

SpecTransfer == TransferInit /\ [][TransferCall]_vars

---------------------------------------------------------------------------
(* calculate_crew_availability: any unavailability intervals, any range *)

AvailDays == 0..MaxAvailDay

\* intervals starting at 00:00 of day 0 or 10:00 of day 1 and ending at 08:00
\* or 13:00 of day 1 or at 08:00, 12:30 or 13:00 of day 2
Intervals ==
    {[crewid |-> id, starttime |-> st, endtime |-> en] :
        id \in {21, 22},
        st \in {0, MinPerDay + 600},
        en \in {MinPerDay + 480, MinPerDay + 780,
                2 * MinPerDay + 480, 2 * MinPerDay + 750, 2 * MinPerDay + 780}}

SubsetsUpTo(S, n) == {T \in SUBSET S : Cardinality(T) <= n}

AvailabilityInit ==
    /\ sha = LoaderSha
    /\ calls = {}
    /\ TransformIdle
    /\ TransferIdle
    /\ aIn \in [crew : {[id \in {21, 22} |-> IF id = 21 THEN 1 ELSE 0],
                        [id \in {21, 22} |-> 1]},
                crewunavaildate : SubsetsUpTo(Intervals, MaxIntervals),
                crewavaildate : {{}, {[crewid |-> 21, availdate |-> 1],
                                      [crewid |-> 22, availdate |-> 0]}},
                start_time : {d * MinPerDay : d \in AvailDays},
                end_time : {d * MinPerDay : d \in AvailDays},
                cutoff_hour : {AvailCutoffHour},
                is_initial : BOOLEAN]
    /\ aOut = [called |-> FALSE, crewavaildate |-> {}, rowcount |-> 0]
    /\ QualificationIdle
    /\ PaginationIdle
    /\ LoaderInit

AvailabilityCall ==
    /\ ~aOut.called
    /\ LET out == calculate_crew_availability(aIn.crewavaildate, aIn.crew,
                       aIn.crewunavaildate, aIn.start_time, aIn.end_time,
                       aIn.cutoff_hour, aIn.is_initial)
       IN  aOut' = [called |-> TRUE, crewavaildate |-> out.table,
                    rowcount |-> out.rowcount]
    /\ UNCHANGED <<aIn, stableIdVars, transformVars, transferVars, qualificationVars,
                   paginationVars, loaderVars>>

SpecAvailability == AvailabilityInit /\ [][AvailabilityCall]_vars


---------------------------------------------------------------------------
(* populate_crew_qualifications_from_flight_data: any movement rows *)

\* movement rows by the columns the queries read: PIC A B or nobody, SIC A B,
\* C D or nobody, on an aircraft of type 1, 2 or 3 or on none
QualMovements ==
    [pic : {NONE, "A B"}, sic : {NONE, "A B", "C D"}, aircraftid : {NULL, 11, 12, 13}]

\* a row loaded by an earlier call, for a pair no movement row gives
OldQualification ==
    [crewid |-> 22, aircrafttypeid |-> 5, positionid |-> 1, typecount |-> 1,
     updatedby |-> "avianis_etl"]

QualificationInit ==
    /\ sha = LoaderSha
    /\ calls = {}
    /\ TransformIdle
    /\ TransferIdle
    /\ AvailabilityIdle
    /\ qIn \in [movement : SubsetsUpTo(QualMovements, MaxQual),
                 crewqualification : {{}, {OldQualification}}]
    /\ qOut = [called |-> FALSE, crewqualification |-> {}]
    /\ PaginationIdle
    /\ LoaderInit

QualificationCall ==
    /\ ~qOut.called
    /\ qOut' = [called |-> TRUE,
                crewqualification |->
                    populate_crew_qualifications_from_flight_data(qIn.crewqualification,
                                                                  qIn.movement)]
    /\ UNCHANGED <<qIn, stableIdVars, transformVars, transferVars, availabilityVars,
                   paginationVars, loaderVars>>

SpecQualification == QualificationInit /\ [][QualificationCall]_vars

---------------------------------------------------------------------------
(* _get_paginated_data against any endpoint *)

\* the endpoint holds up to MaxPages pages of 0..PageSize records, and the
\* request for any of the pages may fail (get_data returns None)
PaginationInit ==
    /\ sha = LoaderSha
    /\ calls = {}
    /\ TransformIdle
    /\ TransferIdle
    /\ AvailabilityIdle
    /\ QualificationIdle
    /\ api \in [pages : SeqsUpTo(0..PageSize, MaxPages), fails : SUBSET (1..MaxPages)]
    /\ pager = NoPager
    /\ LoaderInit

othersOfPagination ==
    <<stableIdVars, transformVars, transferVars, availabilityVars, qualificationVars,
      loaderVars>>

\* all_data = [], page = 1
PaginatedCall ==
    /\ pager.pc = "idle"
    /\ pager' = [NoPager EXCEPT !.pc = "loop", !.page = 1]
    /\ UNCHANGED <<api, othersOfPagination>>

\* get_data returns None (status not 200, failed authentication, exception):
\* `not data` ends the loop
RequestFails ==
    /\ pager.pc = "loop"
    /\ pager.page \in api.fails
    /\ pager' = [pager EXCEPT !.pc = "returned",
                               !.failed = @ \cup {pager.page},
                               !.result = PagerResult(pager.all_data)]
    /\ UNCHANGED <<api, othersOfPagination>>

\* get_data returns an empty list: the loop ends
EmptyPage ==
    /\ pager.pc = "loop"
    /\ pager.page \notin api.fails
    /\ PageData(pager.page) = <<>>
    /\ pager' = [pager EXCEPT !.pc = "returned", !.result = PagerResult(pager.all_data)]
    /\ UNCHANGED <<api, othersOfPagination>>

\* a page shorter than page_size: extend, then the loop ends
ShortPage ==
    /\ pager.pc = "loop"
    /\ pager.page \notin api.fails
    /\ Len(PageData(pager.page)) \in 1..(PageSize - 1)
    /\ pager' = [pager EXCEPT !.pc = "returned",
                               !.all_data = @ \o PageData(pager.page),
                               !.result = PagerResult(pager.all_data \o PageData(pager.page))]
    /\ UNCHANGED <<api, othersOfPagination>>

\* a full page: extend, page += 1
FullPage ==
    /\ pager.pc = "loop"
    /\ pager.page \notin api.fails
    /\ Len(PageData(pager.page)) >= PageSize
    /\ pager' = [pager EXCEPT !.all_data = @ \o PageData(pager.page), !.page = @ + 1]
    /\ UNCHANGED <<api, othersOfPagination>>

PaginationNext == PaginatedCall \/ RequestFails \/ EmptyPage \/ ShortPage \/ FullPage

SpecPagination == PaginationInit /\ [][PaginationNext]_vars

---------------------------------------------------------------------------
(* Properties *)

StagedIds == {movement_temp[i].id : i \in 1..Len(movement_temp)}

\* movement as _clear_table left it in the current run
AfterClear ==
    clear_table(before.movement, run.args.is_initial,
                run.args.start_date, run.args.end_date)

\* C1: process_flight_schedules run twice in succession with the same flight_data
\* and the same (is_initial = False, start_date, end_date) leaves movement and
\* demand after the second run as they were after the first.
C1_Idempotent ==
    (pc = "done" /\ prev.ok /\ prev.args = run.args /\ ~run.args.is_initial)
        => (movement = prev.movement /\ demand = prev.demand)

\* C2: a leg whose tailNumber is non-empty and not resolved by the aircraft
\* lookup map leaves no movement record and no crew-assignment record in the
\* output of transform_flight_data.
C2_DropInvariant ==
    tOut.called =>
        \A i \in 1..Len(tIn.flight_data.legs) :
            LET leg == tIn.flight_data.legs[i]
            IN  (Truthy(leg.tailNumber) /\ leg.tailNumber \notin DOMAIN tIn.lookups.aircraft)
                => /\ \A k \in 1..Len(tOut.movements) :
                        ~(tOut.movements[k].fmsid = leg.id
                          /\ tOut.movements[k].tailnumber = leg.tailNumber)
                   /\ \A k \in 1..Len(tOut.crew_assignments) :
                        ~(tOut.crew_assignments[k].fmsid = leg.id
                          /\ tOut.crew_assignments[k].tailnumber = leg.tailNumber)

\* C2 witness: a batch with a dropped leg beside a kept leg that yields a
\* movement and crew assignments.
C2_Witness ==
    /\ tOut.called
    /\ \E i \in 1..Len(tIn.flight_data.legs) :
          /\ tIn.flight_data.legs[i].tailNumber = "NX"
          /\ tIn.flight_data.legs[i].id # NONE
          /\ tIn.flight_data.legs[i].crew # <<>>
    /\ tOut.movements # <<>>
    /\ tOut.crew_assignments # <<>>
    /\ tOut.skipped_flights # <<>>

\* C3: after any sequence of completed runs, a demand row with id X exists if
\* and only if the movement row with id X exists and has isposition = 0.
C3_DemandIffNotPosition ==
    (pc = "done" /\ prev.allOk) =>
        \A X \in DOMAIN demand \cup DOMAIN movement :
            X \in DOMAIN demand <=> (X \in DOMAIN movement /\ movement[X].isposition = 0)

\* the four-byte prefix as an integer, where it fits
Int32(bytes) == ((bytes[1] * 256 + bytes[2]) * 256 + bytes[3]) * 256 + bytes[4]

\* C4: generate_stable_id(x, min, max) with min <= max is a function of its
\* arguments, lies in [min, max] and equals min plus the 32-bit hash prefix
\* modulo max - min + 1.
C4_StableIdInRange ==
    \A c \in calls :
        /\ c.min_id <= c.result /\ c.result <= c.max_id
        /\ sha[c.fms_id][1] < 128
              => c.result = c.min_id + (Int32(sha[c.fms_id]) % (c.max_id - c.min_id + 1))
        /\ \A d \in calls :
              (d.fms_id = c.fms_id /\ d.min_id = c.min_id /\ d.max_id = c.max_id)
                  => d.result = c.result

\* C4 witness: the same id was hashed into two ranges, and a prefix as large
\* as 2^32 - 1 was reduced into the six-digit range.
C4_Witness ==
    /\ \E c, d \in calls : c.fms_id = d.fms_id /\ c.min_id # d.min_id
    /\ \E c \in calls : sha[c.fms_id] = <<255, 255, 255, 255>> /\ c.min_id = DefaultMinId

\* C5: process_flight_schedules with [] or None as flight_data returns without
\* raising and reports staged and loaded counts of 0 (no SQL error occurring).
C5_EmptyOrNoneLoadsNothing ==
    (/\ Finished
     /\ run.args.flight_data.legs = <<>>
     /\ run.failed_at \in {"none", "step0"})
        => /\ pc = "done"
           /\ results.movement_temp_loaded = 0
           /\ results.crew_assignments_loaded = 0
           /\ results.movement_loaded = 0
           /\ results.demand_loaded = 0

\* C6: the clear step of an incremental run deletes exactly the rows whose
\* outtime date D has start_date <= D <= end_date, both ends inclusive by
\* calendar date.
C6_ClearByCalendarDate ==
    /\ (pc = "port_upsert" /\ ~run.args.is_initial)
          => movement = clear_table_by_calendar_date(before.movement, FALSE,
                            run.args.start_date, run.args.end_date)
    /\ (pc = "demand_upsert" /\ ~run.args.is_initial)
          => demand = clear_table_by_calendar_date(before.demand, FALSE,
                          run.args.start_date, run.args.end_date)

\* C7 as stated: after the movement upsert of an incremental run every staged
\* row is in movement under its id with every non-key column equal to the
\* staged value.
C7_EveryStagedRowPresent ==
    (pc = "demand_clear" /\ ~run.args.is_initial) =>
        \A i \in 1..Len(movement_temp) :
            /\ movement_temp[i].id \in DOMAIN movement
            /\ movement[movement_temp[i].id] = MovementColumns(movement_temp[i])

\* C7 amended: after the movement upsert of an incremental run every staged id
\* is in movement exactly once, with the non-key columns of a row staged under
\* that id (its own values when the id is staged once); the rows of other ids
\* are as the clear left them, so that staging only ids already in the table
\* leaves the row count unchanged.
C7_StagedIdPresentOnce ==
    (pc = "demand_clear" /\ ~run.args.is_initial) =>
        /\ \A i \in 1..Len(movement_temp) :
              /\ movement_temp[i].id \in DOMAIN movement
              /\ \E j \in 1..Len(movement_temp) :
                    /\ movement_temp[j].id = movement_temp[i].id
                    /\ movement[movement_temp[i].id] = MovementColumns(movement_temp[j])
        /\ DOMAIN movement = DOMAIN AfterClear \cup StagedIds
        /\ \A id \in DOMAIN movement \ StagedIds : movement[id] = AfterClear[id]
        /\ StagedIds \subseteq DOMAIN AfterClear
              => Cardinality(DOMAIN movement) = Cardinality(DOMAIN AfterClear)

\* C7 witness: a leg delivered again with new values met its row, which the
\* clear had left in the table, and the row count did not change.
C7_Witness ==
    /\ pc = "demand_clear" /\ ~run.args.is_initial
    /\ movement_temp # <<>>
    /\ StagedIds \subseteq DOMAIN AfterClear
    /\ \E i \in 1..Len(movement_temp) :
          /\ AfterClear[movement_temp[i].id] # MovementColumns(movement_temp[i])
          /\ movement[movement_temp[i].id] = MovementColumns(movement_temp[i])
    /\ Cardinality(DOMAIN movement) = Cardinality(DOMAIN before.movement)

\* C8: after a completed run with is_initial = True, movement holds exactly one
\* row per non-dropped leg of this run and no row from before the run.
C8_InitialLoadHoldsThisRunOnly ==
    (pc = "done" /\ run.args.is_initial) =>
        /\ DOMAIN movement =
              {run.movement_records[i].id : i \in 1..Len(run.movement_records)}
        /\ \A id \in DOMAIN movement :
              \E i \in 1..Len(run.movement_records) :
                  movement[id] = MovementColumns(run.movement_records[i])

\* C9: an SQL error in the movement step or the demand step rolls the step
\* back: the target table holds the rows it held when the step began.
C9_FailedStepRolledBack ==
    /\ (pc = "failed" /\ run.failed_at \in {"port_clear", "port_upsert"})
          => movement = before.movement
    /\ (pc = "failed" /\ run.failed_at \in {"demand_clear", "demand_upsert"})
          => demand = before.demand

\* C10: whenever a run ends, by success or by failure at any step, movement_temp
\* and crewassignment_temp are empty, unless the cleanup itself failed.
C10_StagingEmptyAtRunEnd ==
    (Finished /\ run.cleanup # "failed")
        => (movement_temp = <<>> /\ crewassignment_temp = <<>>)


AfterStaging ==
    {"port_clear", "port_upsert", "demand_clear", "demand_upsert", "enrich",
     "transfer", "transfer_gc", "transfer_cleanup", "done"}

TargetsUntouched ==
    /\ movement = before.movement
    /\ demand = before.demand
    /\ crewassignment = before.crewassignment

\* C11: the movement port step and every later step start only after both
\* load_to_movement_temp and load_crew_assignments have finished, in every
\* interleaving of the two workers; while the staging loads run, and when
\* either of them raises, movement, demand and crewassignment are as they
\* were when the run began.
C11_JoinBarrier ==
    /\ pc \in AfterStaging => (mvWorker = "done" /\ crewWorker = "done")
    /\ (pc = "failed" /\ run.failed_at \notin {"none", "step0", "staging"})
          => (mvWorker = "done" /\ crewWorker = "done")
    /\ pc = "staging" => TargetsUntouched
    /\ (mvWorker = "failed" \/ crewWorker = "failed")
          => (pc \in {"staging", "failed"} /\ TargetsUntouched)

\* C11 witness: the crew load raised after the movement load had staged its
\* rows; the run failed and its target tables, not empty, are untouched.
C11_Witness ==
    /\ pc = "failed" /\ run.failed_at = "staging"
    /\ crewWorker = "failed" /\ mvWorker = "done"
    /\ run.movement_records # <<>>
    /\ movement_temp = run.movement_records
    /\ before.movement # EmptyMap
    /\ movement = before.movement


\* the staged rows the aggregation reads
Qualifying ==
    {i \in 1..Len(cIn.temp) :
        /\ cIn.temp[i].crewid # NULL
        /\ cIn.temp[i].starttime # NULL
        /\ cIn.temp[i].endtime # NULL}

\* the shifts of an earlier load that the DELETE leaves in the table
KeptShifts ==
    {r \in DOMAIN cIn.target : r.dutydate < cIn.min_date \/ r.dutydate > cIn.max_date}

InsertedShifts == DOMAIN cOut.target \ KeptShifts

\* calendar date of the start when it is 09:00 or later, the day before otherwise
DutyDateByMinute(starttime) ==
    IF starttime % MinPerDay >= 9 * 60 THEN starttime \div MinPerDay
    ELSE (starttime \div MinPerDay) - 1

\* C12: the duty date of a staged crew assignment is the calendar date of its
\* start time when the start hour is >= 9 and the previous calendar date
\* otherwise: every staged assignment is in a shift of that duty date, and
\* every shift carries the duty date of one of its assignments.
C12_DutyDateCutover ==
    cOut.called =>
        /\ \A i \in Qualifying :
              \E r \in InsertedShifts :
                  /\ r.crewid = cIn.temp[i].crewid
                  /\ r.positionid = cIn.temp[i].positionid
                  /\ r.dutydate = DutyDateByMinute(cIn.temp[i].starttime)
        /\ \A r \in InsertedShifts :
              \E i \in Qualifying :
                  /\ r.crewid = cIn.temp[i].crewid
                  /\ r.positionid = cIn.temp[i].positionid
                  /\ r.dutydate = DutyDateByMinute(cIn.temp[i].starttime)

\* C12 witness: the same crew member starts one leg at 08:59 and another at
\* 09:00 of day 1; the shifts are on duty dates 0 and 1.
C12_Witness ==
    /\ cOut.called
    /\ \E i, j \in Qualifying :
          /\ cIn.temp[i].starttime = MinPerDay + 539
          /\ cIn.temp[j].starttime = MinPerDay + 540
          /\ cIn.temp[i].positionid = cIn.temp[j].positionid
    /\ \E r, q \in InsertedShifts : r.dutydate = 0 /\ q.dutydate = 1

SameGroup(i, j) ==
    /\ cIn.temp[i].crewid = cIn.temp[j].crewid
    /\ cIn.temp[i].aircraftid = cIn.temp[j].aircraftid
    /\ cIn.temp[i].positionid = cIn.temp[j].positionid
    /\ DutyDateByMinute(cIn.temp[i].starttime) = DutyDateByMinute(cIn.temp[j].starttime)

ShiftOf(r, i) ==
    /\ r.crewid = cIn.temp[i].crewid
    /\ r.aircraftid = cIn.temp[i].aircraftid
    /\ r.positionid = cIn.temp[i].positionid
    /\ r.dutydate = DutyDateByMinute(cIn.temp[i].starttime)

\* C13: transfer_temp_to_target inserts exactly one shift row per group (crewid,
\* aircraftid, duty date, positionid) of staged assignments with non-null crew
\* id, start and end; its starttime is the earliest leg start of the group
\* minus 60 minutes and its endtime the latest leg end plus 30 minutes.
C13_OneShiftPerGroup ==
    cOut.called =>
        /\ \A i \in Qualifying :
              /\ Cardinality({r \in InsertedShifts : ShiftOf(r, i)}) = 1
              /\ \A r \in InsertedShifts :
                    ShiftOf(r, i) =>
                        /\ cOut.target[r] = 1
                        /\ r.starttime <= cIn.temp[i].starttime - 60
                        /\ r.endtime >= cIn.temp[i].endtime + 30
                        /\ \E j \in Qualifying :
                              SameGroup(i, j) /\ r.starttime = cIn.temp[j].starttime - 60
                        /\ \E j \in Qualifying :
                              SameGroup(i, j) /\ r.endtime = cIn.temp[j].endtime + 30
        /\ \A r \in InsertedShifts : \E i \in Qualifying : ShiftOf(r, i)
        /\ \A r \in KeptShifts : cOut.target[r] = cIn.target[r]
        /\ cOut.rowcount = Cardinality(InsertedShifts)

\* C13 witness: leg windows 10:00-12:00 and 13:00-15:00 of one crew member,
\* aircraft and position on day 1 became one shift 09:00-15:30.
C13_Witness ==
    /\ cOut.called
    /\ \E i, j \in Qualifying :
          /\ i # j /\ SameGroup(i, j)
          /\ cIn.temp[i].starttime = MinPerDay + 600 /\ cIn.temp[i].endtime = MinPerDay + 720
          /\ cIn.temp[j].starttime = MinPerDay + 780 /\ cIn.temp[j].endtime = MinPerDay + 900
    /\ Cardinality(InsertedShifts) = 1
    /\ \E r \in InsertedShifts :
          r.starttime = MinPerDay + 540 /\ r.endtime = MinPerDay + 930


\* C14: after calculate_crew_availability(start, end, cutoff_hour, is_initial),
\* for every active crew member c and every calendar day d in [start, end],
\* crewavaildate has a row (c, d) if and only if no unavailability interval u
\* of c has d in [date(u.start), date(u.end) - 1 day], or d = date(u.end) and
\* hour(u.end) > cutoff_hour.
C14_AvailabilityRows ==
    aOut.called =>
        \A c \in {x \in DOMAIN aIn.crew : aIn.crew[x] = 1} :
            \A d \in (aIn.start_time \div MinPerDay)..(aIn.end_time \div MinPerDay) :
                ([crewid |-> c, availdate |-> d] \in aOut.crewavaildate)
                <=> ~\E u \in aIn.crewunavaildate :
                        /\ u.crewid = c
                        /\ \/ /\ u.starttime \div MinPerDay <= d
                              /\ d <= (u.endtime \div MinPerDay) - 1
                           \/ /\ d = u.endtime \div MinPerDay
                              /\ (u.endtime % MinPerDay) \div 60 > aIn.cutoff_hour

\* C14 witness: an interval from day 0 to 08:00 of day 2 makes days 0 and 1
\* unavailable and leaves day 2 available; the stale row of day 1 is gone.
C14_Witness ==
    /\ aOut.called
    /\ ~aIn.is_initial
    /\ aIn.start_time = 0 /\ aIn.end_time = 2 * MinPerDay
    /\ [crewid |-> 21, starttime |-> 0, endtime |-> 2 * MinPerDay + 480]
          \in aIn.crewunavaildate
    /\ [crewid |-> 21, availdate |-> 1] \in aIn.crewavaildate
    /\ [crewid |-> 21, availdate |-> 0] \notin aOut.crewavaildate
    /\ [crewid |-> 21, availdate |-> 1] \notin aOut.crewavaildate
    /\ [crewid |-> 21, availdate |-> 2] \in aOut.crewavaildate


\* the leg handed to transform_flight_data under SpecLeg, and its anchors
TheLeg == tIn.flight_data.legs[1]

Present(iso) == iso.fmt \in {"datetime", "date"}

Minutes(iso) == iso.day * MinPerDay + (IF iso.fmt = "datetime" THEN iso.min ELSE 0)

\* C15: offtime = scheduled departure + 6 min when the departure is present and
\* null otherwise, ontime = scheduled arrival - 6 min when the arrival is
\* present and null otherwise, flighttime = ontime - offtime and blocktime =
\* arrival - departure when both anchors are present and null otherwise.
C15_OooiNullPropagation ==
    (tOut.called /\ Len(tIn.flight_data.legs) = 1) =>
        \A k \in 1..Len(tOut.movements) :
            LET m == tOut.movements[k]
                dep == TheLeg.scheduledDepartureDateUTC
                arr == TheLeg.scheduledArrivalDateUTC
            IN  /\ m.outtime = IF Present(dep) THEN Minutes(dep) ELSE NULL
                /\ m.intime = IF Present(arr) THEN Minutes(arr) ELSE NULL
                /\ m.offtime = IF Present(dep) THEN Minutes(dep) + 6 ELSE NULL
                /\ m.ontime = IF Present(arr) THEN Minutes(arr) - 6 ELSE NULL
                /\ m.flighttime = IF Present(dep) /\ Present(arr)
                                  THEN (Minutes(arr) - 6) - (Minutes(dep) + 6) ELSE NULL
                /\ m.blocktime = IF Present(dep) /\ Present(arr)
                                 THEN Minutes(arr) - Minutes(dep) ELSE NULL

\* C15 witness: a leg without scheduledDepartureDateUTC and with an arrival
\* gave a movement with ontime set and offtime and flighttime null.
C15_Witness ==
    /\ tOut.called
    /\ Len(tIn.flight_data.legs) = 1
    /\ TheLeg.scheduledDepartureDateUTC = IsoAbsent
    /\ TheLeg.scheduledArrivalDateUTC = IsoDateTime(1, 720)
    /\ Len(tOut.movements) = 1
    /\ tOut.movements[1].ontime = MinPerDay + 714
    /\ tOut.movements[1].offtime = NULL
    /\ tOut.movements[1].flighttime = NULL


\* C16: after the staging step of a run, movement_temp holds exactly the
\* movement records transformed in this run and crewassignment_temp exactly
\* the crew-assignment records transformed in this run, also when that list
\* is empty.
C16_StagingRebuiltEachRun ==
    pc = "port_clear" =>
        /\ movement_temp = run.movement_records
        /\ crewassignment_temp = run.crew_assignment_records

RunIds == {run.movement_records[i].id : i \in 1..Len(run.movement_records)}

OutsideRange(row) ==
    /\ row.outtime # NULL
    /\ \/ DateOf(row.outtime) < run.args.start_date.day
       \/ DateOf(row.outtime) > run.args.end_date.day

\* C17: an incremental run never deletes or modifies a movement or demand row
\* whose outtime lies outside the requested [start_date, end_date] range and
\* whose id is not among the ids staged in this run.
C17_FrameOutsideRange ==
    (pc \notin {"idle"} /\ ~run.args.is_initial /\ run.failed_at # "step0") =>
        /\ \A id \in DOMAIN before.movement \ RunIds :
              OutsideRange(before.movement[id])
                  => (id \in DOMAIN movement /\ movement[id] = before.movement[id])
        /\ \A id \in DOMAIN before.demand \ RunIds :
              OutsideRange(before.demand[id])
                  => (id \in DOMAIN demand /\ demand[id] = before.demand[id])


Kept == Len(tOut.movements) = 1

FullName(entry) == entry.firstName \o " " \o entry.lastName

IsPic(entry) == entry.crewPosition \in {"PIC", "pic"}

IsSic(entry) == entry.crewPosition \in {"SIC", "sic"}

\* the roster entries with position pic or sic whose name is in the crew map
AssignableEntries ==
    SelectSeq(TheLeg.crew,
              LAMBDA e : (IsPic(e) \/ IsSic(e)) /\ FullName(e) \in DOMAIN tIn.lookups.crew)

\* one crew-assignment record per assignable roster entry, in roster order
OneRecordPerAssignableEntry ==
    /\ Len(tOut.crew_assignments) = Len(AssignableEntries)
    /\ \A k \in 1..Len(AssignableEntries) :
          /\ tOut.crew_assignments[k].crewname = FullName(AssignableEntries[k])
          /\ tOut.crew_assignments[k].crewid = tIn.lookups.crew[FullName(AssignableEntries[k])]
          /\ tOut.crew_assignments[k].positionid = IF IsPic(AssignableEntries[k]) THEN 1 ELSE 2
          /\ tOut.crew_assignments[k].fmsid = TheLeg.id

\* C18 as stated: for every kept leg the transformer outputs exactly one
\* crew-assignment record per roster entry whose position is pic or sic and
\* whose name resolves, with position id 1 for pic and 2 for sic, and none for
\* any other entry.
C18_OnePerRosterEntry ==
    (tOut.called /\ Kept) => OneRecordPerAssignableEntry

\* C18 amended: the same for every kept leg whose tail number resolves to an
\* aircraft id; a kept leg without tail number yields no crew-assignment
\* record.
C18_OnePerRosterEntryWithAircraft ==
    (tOut.called /\ Kept) =>
        IF TheLeg.tailNumber \in DOMAIN tIn.lookups.aircraft
        THEN OneRecordPerAssignableEntry
        ELSE tOut.crew_assignments = <<>>

\* C18 witness: a kept leg on a known tail with a resolved PIC and an entry
\* of another position gave one record; position id 1.
C18_Witness ==
    /\ tOut.called /\ Kept
    /\ TheLeg.tailNumber = "N1"
    /\ Len(TheLeg.crew) = 2
    /\ IsPic(TheLeg.crew[1]) /\ FullName(TheLeg.crew[1]) \in DOMAIN tIn.lookups.crew
    /\ TheLeg.crew[2].crewPosition = "FA"
    /\ Len(tOut.crew_assignments) = 1
    /\ tOut.crew_assignments[1].positionid = 1


TailAbsent == TheLeg.tailNumber \in {NONE, ""}

\* C19: a leg whose tail number is absent is kept: transform_flight_data
\* outputs a movement record for it with aircraftid null and does not list it
\* among the skipped flights.
C19_AbsentTailKept ==
    (tOut.called /\ TailAbsent) =>
        /\ Len(tOut.movements) = 1
        /\ tOut.movements[1].fmsid = TheLeg.id
        /\ tOut.movements[1].aircraftid = NULL
        /\ tOut.skipped_flights = <<>>

\* C19 witness: a leg without tail number was transformed while the aircraft
\* map was not empty, and its movement record is there.
C19_Witness ==
    /\ tOut.called
    /\ TheLeg.tailNumber = NONE
    /\ tIn.lookups.aircraft # EmptyMap
    /\ Len(tOut.movements) = 1
    /\ tOut.movements[1].aircraftid = NULL

PicIndexes == {i \in 1..Len(TheLeg.crew) : IsPic(TheLeg.crew[i])}

SicIndexes == {i \in 1..Len(TheLeg.crew) : IsSic(TheLeg.crew[i])}

Last(indexes) == CHOOSE i \in indexes : \A j \in indexes : j <= i

LastName(indexes) ==
    IF indexes = {} THEN NONE ELSE FullName(TheLeg.crew[Last(indexes)])

\* C20: the movement's PIC name is the name of the last roster entry whose
\* lower-cased position is pic, likewise for SIC, and is null when no such
\* entry exists; a roster entry with any other position never sets the PIC or
\* SIC field but is still present in the crew-member list.
C20_LastRosterEntryWins ==
    (tOut.called /\ Kept) =>
        LET crew_members == extract_shared_flight_data(TheLeg, 0).crew_members
        IN  /\ tOut.movements[1].pic = LastName(PicIndexes)
            /\ tOut.movements[1].sic = LastName(SicIndexes)
            /\ Len(crew_members) = Len(TheLeg.crew)
            /\ \A i \in 1..Len(TheLeg.crew) :
                  /\ crew_members[i].name = FullName(TheLeg.crew[i])
                  /\ (~IsPic(TheLeg.crew[i]) /\ ~IsSic(TheLeg.crew[i])) =>
                        /\ crew_members[i].position = TheLeg.crew[i].crewPosition
                        /\ crew_members[i].position_id = NULL

\* C20 witness: a roster with two PIC entries of different names, spelled in
\* different case, gave the second name.
C20_Witness ==
    /\ tOut.called /\ Kept
    /\ Len(TheLeg.crew) = 2
    /\ TheLeg.crew[1].crewPosition = "PIC"
    /\ TheLeg.crew[2].crewPosition = "pic"
    /\ FullName(TheLeg.crew[1]) # FullName(TheLeg.crew[2])
    /\ tOut.movements[1].pic = FullName(TheLeg.crew[2])
    /\ tOut.movements[1].sic = NONE

\* the movement port of this run is committed: the clear, then the upsert of
\* the staged rows
MovementPortCommitted ==
    \E scan \in ScanOrders(movement_temp) :
        movement = upsert_movement(clear_table(before.movement, run.args.is_initial,
                                               run.args.start_date, run.args.end_date),
                                   scan)

DemandLoaded(scan) ==
    upsert_demand(clear_table(before.demand, run.args.is_initial,
                              run.args.start_date, run.args.end_date), scan)

\* the demand load of this run is committed
DemandLoadCommitted ==
    \E scan \in ScanOrders(movement_temp) : demand = DemandLoaded(scan)

\* the demand enrichment of this run is committed
DemandEnrichmentCommitted ==
    \E scan \in ScanOrders(movement_temp) :
        demand = populate_demand_aircraft_requests(DemandLoaded(scan), movement_temp)

\* a step has returned when its count is in results
Returned(step) == results[step] # NULL

\* C21: the loader steps run in the fixed order movement port, demand load,
\* demand enrichment, crew transfer, each committed before the next begins and
\* with no transaction spanning steps: when a later step fails, the changes
\* committed by earlier steps of the same run stay in the target tables and no
\* step after the failed one runs.
C21_StepsInOrderAndCommitted ==
    /\ Returned("crew_shifts_loaded") => Returned("demand_aircraft_requests_populated")
    /\ Returned("demand_aircraft_requests_populated") => Returned("demand_loaded")
    /\ Returned("demand_loaded") => Returned("movement_loaded")
    /\ Returned("movement_loaded") => Returned("movement_temp_loaded")
    /\ pc = "failed" =>
          /\ run.failed_at \in {"step0", "staging"} =>
                /\ movement = before.movement
                /\ ~Returned("movement_loaded")
          /\ run.failed_at \in {"step0", "staging", "port_clear", "port_upsert"} =>
                /\ demand = before.demand
                /\ crewassignment = before.crewassignment
                /\ ~Returned("movement_loaded")
          /\ run.failed_at \in {"demand_clear", "demand_upsert"} =>
                /\ MovementPortCommitted
                /\ crewassignment = before.crewassignment
                /\ Returned("movement_loaded") /\ ~Returned("demand_loaded")
          /\ run.failed_at = "enrich" =>
                /\ MovementPortCommitted
                /\ DemandLoadCommitted
                /\ crewassignment = before.crewassignment
                /\ Returned("demand_loaded")
                /\ ~Returned("demand_aircraft_requests_populated")
          /\ run.failed_at \in {"transfer", "transfer_gc"} =>
                /\ MovementPortCommitted
                /\ DemandEnrichmentCommitted
                /\ Returned("demand_aircraft_requests_populated")
                /\ ~Returned("crew_shifts_loaded")
          /\ run.failed_at = "transfer" => crewassignment = before.crewassignment

\* C21 witness: the demand load failed after the movement port had committed a
\* new row; the row is in movement, and demand enrichment and crew transfer
\* did not run.
C21_Witness ==
    /\ pc = "failed"
    /\ run.failed_at = "demand_upsert"
    /\ movement # before.movement
    /\ results.movement_loaded > 0
    /\ MovementPortCommitted
    /\ ~Returned("demand_loaded")
    /\ ~Returned("crew_shifts_loaded")


RunLegs == run.args.flight_data.legs

RunLookups ==
    LET lookup_sets == collect_lookup_sets(run.args.flight_data)
    IN  get_bulk_lookups(lookup_sets.crew_names, lookup_sets.tail_numbers)

StableId(fms_id) == generate_stable_id(fms_id, DefaultMinId, DefaultMaxId)

\* legs i < j of this run's batch with distinct external ids and one stable id
Colliding(i, j) ==
    /\ i < j
    /\ RunLegs[i].id # RunLegs[j].id
    /\ StableId(RunLegs[i].id) = StableId(RunLegs[j].id)

\* C22 as stated: when two legs of one batch have distinct external ids that
\* map to the same stable id, the pipeline logs a duplicate-id warning,
\* rejects neither record, and movement ends with a single row for that id
\* holding the values of the record written second.
C22_CollisionLoggedSecondWins ==
    (pc = "demand_clear" /\ Len(RunLegs) = 2 /\ Colliding(1, 2)) =>
        /\ \E line \in transform_log(run.args.flight_data, RunLookups, now) :
              /\ line.kind = "Duplicate stable_id"
              /\ line.subject = StableId(RunLegs[1].id)
        /\ Len(run.movement_records) = 2
        /\ run.movement_records[1].fmsid = RunLegs[1].id
        /\ run.movement_records[2].fmsid = RunLegs[2].id
        /\ StableId(RunLegs[2].id) \in DOMAIN movement
        /\ movement[StableId(RunLegs[2].id)] = MovementColumns(run.movement_records[2])


NameIn(m, positionid) == IF positionid = 1 THEN m.pic ELSE m.sic

\* the movement row names, in the position, the crew member with this id and
\* is flown on an aircraft of this type
Gives(m, positionid, crewid, aircrafttypeid) ==
    LET type == Get(AircraftTypes, m.aircraftid)
    IN  /\ NameIn(m, positionid) # NONE
        /\ Get(CrewTable, NameIn(m, positionid)) = crewid
        /\ aircrafttypeid = (IF type \in {1, 2} THEN 1 ELSE type)

\* rows of a crew member and an aircraft type, as a unique key counts them
KnownPair(row) == row.crewid # NULL /\ row.aircrafttypeid # NULL

RowsOf(crewid) == {row \in qOut.crewqualification : row.crewid = crewid}

\* C24 as stated: the typecount values of the qualification rows of any one
\* crew member form a per-crew sequence 1..n without repeats, equal to the row
\* number of each row within that crew ordered by aircraft type, also when the
\* crew member has both PIC and SIC qualifications.
C24_TypecountPerCrewSequence ==
    qOut.called =>
        \A crewid \in {21, 22} :
            /\ {row.typecount : row \in RowsOf(crewid)} = 1..Cardinality(RowsOf(crewid))
            /\ \A r1, r2 \in RowsOf(crewid) :
                  r1.aircrafttypeid < r2.aircrafttypeid => r1.typecount < r2.typecount


\* the span handed over covers the scheduled departure date of every staged
\* row, as the span get_flight_date_range takes from the batch does
SpanCoversStaged ==
    \A i \in 1..Len(cIn.temp) :
        cIn.temp[i].starttime # NULL =>
            /\ cIn.min_date <= cIn.temp[i].starttime \div MinPerDay
            /\ cIn.temp[i].starttime \div MinPerDay <= cIn.max_date

\* crewassignment after the same staged rows are transferred once more
TransferredAgain ==
    transfer_temp_to_target(cOut.target, cIn.temp, cIn.min_date, cIn.max_date)

RowsWithKey(table, r) ==
    {x \in DOMAIN table :
        /\ x.crewid = r.crewid /\ x.aircraftid = r.aircraftid
        /\ x.dutydate = r.dutydate /\ x.positionid = r.positionid}

\* C25 as stated: every shift row that transfer_temp_to_target inserts has a
\* duty date inside the [min, max] scheduled-departure date span whose rows it
\* deleted just before, so running again with the same batch never leaves two
\* shift rows in crewassignment for one (crew id, aircraft id, duty date,
\* position id).
C25_ShiftsInsideDeletedSpan ==
    (cOut.called /\ SpanCoversStaged) =>
        /\ \A r \in InsertedShifts :
              cIn.min_date <= r.dutydate /\ r.dutydate <= cIn.max_date
        /\ \A r \in DOMAIN TransferredAgain :
              /\ TransferredAgain[r] = 1
              /\ RowsWithKey(TransferredAgain, r) = {r}


\* C26 as stated: for every movement record that build_movement_record
\* produces, demandid is non-null (and then equal to id) exactly when
\* isposition = 0, so every row inserted into demand has an id equal to the
\* demandid of its movement row.
C26_DemandIdIffNotPosition ==
    tOut.called =>
        /\ \A i \in 1..Len(tOut.movements) :
              /\ (tOut.movements[i].demandid # NULL) <=> (tOut.movements[i].isposition = 0)
              /\ tOut.movements[i].demandid # NULL =>
                    tOut.movements[i].demandid = tOut.movements[i].id
        /\ \A i \in {j \in 1..Len(tOut.movements) : tOut.movements[j].isposition = 0} :
              tOut.movements[i].id = tOut.movements[i].demandid


\* C27 as stated: process_flight_schedules called with an empty flight_data
\* list leaves the target tables movement, demand and crewassignment with
\* exactly the rows they had before the call, for is_initial True and False.
C27_EmptyBatchLeavesTargets ==
    (pc = "done" /\ run.args.flight_data = FlightData(<<>>)) =>
        /\ movement = before.movement
        /\ demand = before.demand
        /\ crewassignment = before.crewassignment

\* C28: a leg whose processing raises (a leg without an id) is skipped: a batch
\* that holds such a leg does not make process_flight_schedules fail in Step 0,
\* before any other leg of the batch is transformed or loaded
C28_BadLegNeverFailsBatch ==
    (\E i \in 1..Len(run.args.flight_data.legs) : Raises(run.args.flight_data.legs[i]))
        => ~(pc = "failed" /\ run.failed_at = "step0")

\* C29: the crew-name set of collect_lookup_sets holds the full name of every
\* pic or sic roster entry of every leg, so within process_flight_schedules
\* every such entry whose name matches a crew reference row, on a leg whose
\* tail number resolves to an aircraft, yields a crew-assignment record
NamedInLookupSets(entry) ==
    FullName(entry) \in collect_lookup_sets(run.args.flight_data).crew_names

AssignedInRun(leg, entry) ==
    \E k \in 1..Len(run.crew_assignment_records) :
        /\ run.crew_assignment_records[k].fmsid = leg.id
        /\ run.crew_assignment_records[k].crewname = FullName(entry)

C29_EveryRosterNameLookedUp ==
    (pc # "idle" /\ run.failed_at # "step0") =>
        \A i \in 1..Len(run.args.flight_data.legs) :
            LET leg == run.args.flight_data.legs[i]
            IN  \A j \in 1..Len(leg.crew) :
                    (IsPic(leg.crew[j]) \/ IsSic(leg.crew[j])) =>
                        /\ NamedInLookupSets(leg.crew[j])
                        /\ (/\ FullName(leg.crew[j]) \in DOMAIN CrewTable
                            /\ leg.tailNumber \in DOMAIN AircraftTable)
                               => AssignedInRun(leg, leg.crew[j])

\* the records of pages 1..n in page order
RECURSIVE PagesUpTo(_)
PagesUpTo(n) == IF n = 0 THEN <<>> ELSE PagesUpTo(n - 1) \o PageData(n)

\* the first page that is empty or shorter than the page size
LastPage ==
    CHOOSE p \in 1..(MaxPages + 1) :
        /\ Len(PageData(p)) < PageSize
        /\ \A q \in 1..(p - 1) : Len(PageData(q)) >= PageSize

\* C30: _get_paginated_data goes on to the next page only after a full page,
\* and returns either the records of all the pages up to the first empty or
\* short one, in page order, or None; when the request for a page after the
\* first fails it does not return the records of the earlier pages as the
\* complete result
C30_AllPagesOrNone ==
    /\ pager.pc = "loop" =>
          /\ \A q \in 1..(pager.page - 1) : Len(PageData(q)) >= PageSize
          /\ pager.all_data = PagesUpTo(pager.page - 1)
    /\ pager.pc = "returned" =>
          \/ pager.result.isNone
          \/ pager.result.records = PagesUpTo(LastPage)

====
